---------------------------- MODULE Spec2Model ----------------------------
(***************************************************************************)
(* Stock Pitch AI: the rule-based valuation engine (FreeStockAnalyzer),    *)
(* the premium analyzer (StockAnalyzer) and the session logic of the app.  *)
(*                                                                         *)
(* Numbers.  A number of a snapshot is a decimal literal counted in        *)
(* millionths (Scale): a price of 100.0 is 100000000, a P/E of 12 is       *)
(* 12000000, a beta of 1.5 is 1500000, a dividend yield of 1% is 10000.    *)
(* market_cap alone is counted in millions of dollars (1e9 is 1000).       *)
(* Every number the program computes is the IEEE 754 double Python         *)
(* computes: sign, exponent and a 53-bit significand, each operation       *)
(* rounded to the nearest double, ties to even.  Strings the program       *)
(* formats from a float (round(x, 2), '.1f', '.1%') are the integers of    *)
(* their digits: round(x, 2) in millionths, a percentage in tenths of a    *)
(* percent ('-0.0%', which Python prints for a negative value that rounds  *)
(* to zero, is the integer 0).  The integers of the model are 32 bits      *)
(* wide, so a snapshot number and a rounded target stay below 2147.48.     *)
(* sum() adds from the int 0, left to right, as CPython 3.11 does.         *)
(*                                                                         *)
(* Values.  A field of a record is a tagged value: Num(n), None (the key   *)
(* is present and holds Python's None) or Absent (the key is missing).     *)
(***************************************************************************)
EXTENDS Integers, Sequences, FiniteSets, TLC

VARIABLES
    stock_data,        \* the snapshot handed to the analyzer (calculation runs)
    call,              \* the function of FreeStockAnalyzer that was applied
    ret,               \* what the call returned
    args,              \* the arguments of a helper applied on its own (helper runs)
    \* st.session_state of the app
    analysis_complete,
    analysis_result,
    stock_info,
    current_symbol,
    analysis_type,
    \* the sidebar widgets
    analysis_mode,
    api_key,
    symbol_text,       \* the text in the symbol box
    stock_symbol,      \* the text in upper case, as the script reads it
    \* what the last script run did: its event, the external calls it issued,
    \* the messages it showed and the presentation generator it called
    last_run,
    \* the process every session runs in
    openai_api_key,    \* the module attribute openai.api_key
    logger_handlers,   \* the handlers of the logger "utils.logger", in order
    \* concurrent analysis runs
    runs,              \* each run's inputs, position and result
    shared_access      \* which runs have read and written each process variable

calcVars == <<stock_data, call, ret, args>>

sessionVars ==
    <<analysis_complete, analysis_result, stock_info, current_symbol, analysis_type>>

widgetVars == <<analysis_mode, api_key, symbol_text, stock_symbol>>

appVars == <<sessionVars, widgetVars, last_run>>

processVars == <<openai_api_key, logger_handlers>>

runVars == <<runs, shared_access>>

vars == <<calcVars, appVars, processVars, runVars>>

Scale == 10 ^ 6

\* Literals of the source in the model's units: Whole(12) is 12.0, Milli(45) is
\* 0.045, Bn(50) is a market_cap of 50e9.
Whole(n) == n * Scale
Milli(n) == n * 1000
Bn(n) == n * 1000

----------------------------------------------------------------------------
(* Tagged values and dict access                                           *)

Num(n) == [k |-> "num", v |-> n]
None == [k |-> "none", v |-> 0]
Absent == [k |-> "absent", v |-> 0]

IsNum(x) == x.k = "num"
IsNone(x) == x.k = "none"

\* dict.get(key, default): the default only replaces a missing key, never a
\* key that holds None.
Get(d, key, default) == IF d[key].k = "absent" THEN default ELSE d[key]

\* dict.get on a record whose keys are its fields.
DictGet(d, key, default) == IF key \in DOMAIN d THEN d[key] ELSE default

\* What a table of computed values holds for a key, or, for a key that is not
\* in the table, the value computed for it.
Lookup(table, key, computed) ==
    IF key \in DOMAIN table THEN table[key] ELSE computed

----------------------------------------------------------------------------
(* Integers                                                                *)

Abs(a) == IF a < 0 THEN -a ELSE a
Sign(a) == IF a < 0 THEN -1 ELSE 1
Max(a, b) == IF a >= b THEN a ELSE b
Min(a, b) == IF a <= b THEN a ELSE b

----------------------------------------------------------------------------
(* Natural numbers of any size, as sequences of 14-bit limbs, the lowest   *)
(* first: what the 53-bit significands of doubles are computed with        *)

Base == 2 ^ 14

Limb(n, i) == IF i \in 1..Len(n) THEN n[i] ELSE 0

\* n without its leading zero limbs.
RECURSIVE Trim(_)
Trim(n) == IF n # <<>> /\ n[Len(n)] = 0 THEN Trim(SubSeq(n, 1, Len(n) - 1)) ELSE n

\* The number of bits of a limb.
RECURSIVE Bits(_)
Bits(x) == IF x = 0 THEN 0 ELSE 1 + Bits(x \div 2)

BitLenTrimmed(t) == IF t = <<>> THEN 0 ELSE 14 * (Len(t) - 1) + Bits(t[Len(t)])

\* The number of bits of n.
BitLen(n) == BitLenTrimmed(Trim(n))

\* The limbs of the number whose limb i holds c[i] (each below 2^30) plus the
\* carry k.
RECURSIVE CarryFrom(_, _, _)
CarryFrom(c, i, k) ==
    IF i > Len(c)
    THEN (IF k = 0 THEN <<>> ELSE <<k % Base>> \o CarryFrom(c, i, k \div Base))
    ELSE <<(c[i] + k) % Base>> \o CarryFrom(c, i + 1, (c[i] + k) \div Base)

Carry(c) == CarryFrom(c, 1, 0)

\* n * 2^k
Shl(n, k) ==
    [i \in 1..(k \div 14) |-> 0] \o Carry([i \in 1..Len(n) |-> n[i] * 2 ^ (k % 14)])

ShrLimbs(n, r) ==
    [i \in 1..Len(n) |-> (n[i] \div 2 ^ r) + (Limb(n, i + 1) % 2 ^ r) * 2 ^ (14 - r)]

\* n \div 2^k
Shr(n, k) ==
    IF k \div 14 >= Len(n) THEN <<>>
    ELSE ShrLimbs(SubSeq(n, k \div 14 + 1, Len(n)), k % 14)

\* Bit j of n (bit 0 is the lowest).
BitAt(n, j) == (Limb(n, j \div 14 + 1) \div 2 ^ (j % 14)) % 2

\* Some bit of n below bit j is set.
AnyBelow(n, j) ==
    \/ \E i \in 1..Len(n) : i <= j \div 14 /\ n[i] # 0
    \/ Limb(n, j \div 14 + 1) % 2 ^ (j % 14) # 0

RECURSIVE CmpFrom(_, _, _)
CmpFrom(n, m, i) ==
    IF i = 0 THEN 0
    ELSE IF Limb(n, i) > Limb(m, i) THEN 1
    ELSE IF Limb(n, i) < Limb(m, i) THEN -1
    ELSE CmpFrom(n, m, i - 1)

\* The sign of n - m.
Cmp(n, m) == CmpFrom(n, m, Max(Len(n), Len(m)))

BAdd(n, m) == Carry([i \in 1..Max(Len(n), Len(m)) |-> Limb(n, i) + Limb(m, i)])

RECURSIVE BorrowFrom(_, _, _, _)
BorrowFrom(n, m, i, k) ==
    IF i > Len(n) THEN <<>>
    ELSE <<(n[i] - Limb(m, i) - k + Base) % Base>>
         \o BorrowFrom(n, m, i + 1, IF n[i] - Limb(m, i) - k < 0 THEN 1 ELSE 0)

\* n - m, for n >= m
BSub(n, m) == BorrowFrom(n, m, 1, 0)

\* n * m, for m of four limbs
BMul4(n, m) ==
    Carry([k \in 1..(Len(n) + 3) |->
              Limb(n, k) * m[1] + Limb(n, k - 1) * m[2]
              + Limb(n, k - 2) * m[3] + Limb(n, k - 3) * m[4]])

\* n * q, for a limb q
MulLimb(n, q) == Carry([i \in 1..Len(n) |-> n[i] * q])

Pad4(n) == [i \in 1..4 |-> Limb(n, i)]

\* The value of n as an integer (n below 2^31).
RECURSIVE ToNat(_, _)
ToNat(n, i) == IF i > Len(n) THEN 0 ELSE n[i] + Base * ToNat(n, i + 1)

\* n / 2^k (plus something below one unit of n if sticky), for k >= 1, lies
\* above the half between two integers, or on it with the odd one below.
RoundsUp(n, sticky, k) ==
    BitAt(n, k - 1) = 1 /\ (sticky \/ AnyBelow(n, k - 1) \/ BitAt(n, k) = 1)

\* q, or q + 1 if up
Successor(q, up) == IF up THEN BAdd(q, <<1>>) ELSE q

\* n / 2^k rounded to the nearest integer, a tie to the even one.
HalfEven(n, k) ==
    ToNat(Successor(Shr(n, k), k > 0 /\ RoundsUp(n, FALSE, k)), 1)

----------------------------------------------------------------------------
(* Python floats: IEEE 754 doubles.  A double is s * m * 2^e with s the    *)
(* sign (0 for zero), m a significand of exactly 53 bits in four limbs and *)
(* e the exponent; every operation returns the double nearest to the exact *)
(* result, a tie going to the even significand.  Infinities, NaN and       *)
(* subnormal numbers are not reached by the values of the model.           *)

Zero == [s |-> 0, e |-> 0, m |-> <<0, 0, 0, 0>>]

\* The double s * m * 2^e of a significand m of 53 bits, or of 2^53 after a
\* rounding up: the next power of two.
Bumped(s, e, m) ==
    IF m[4] >= 2048 THEN [s |-> s, e |-> e + 1, m |-> <<0, 0, 0, 1024>>]
    ELSE [s |-> s, e |-> e, m |-> m]

\* The 53 leading bits of n, a number of len bits: n shifted up, or n with
\* its len - 53 lowest bits rounded away.
Leading53(n, sticky, len) ==
    IF len <= 53 THEN Shl(n, 53 - len)
    ELSE Successor(Shr(n, len - 53), RoundsUp(n, sticky, len - 53))

RoundLen(s, n, e, sticky, len) ==
    IF len = 0 THEN Zero
    ELSE Bumped(s, e + len - 53, Pad4(Leading53(n, sticky, len)))

\* The double nearest to s * n * 2^e.
RoundBig(s, n, e, sticky) == RoundLen(s, n, e, sticky, BitLen(n))

\* float(x) of an int below 2^31
FromInt(x) ==
    IF x = 0 THEN Zero ELSE RoundBig(Sign(x), Carry(<<Abs(x)>>), 0, FALSE)

\* a * b
FMul(a, b) ==
    IF a.s = 0 \/ b.s = 0 THEN Zero
    ELSE RoundBig(a.s * b.s, BMul4(a.m, b.m), a.e + b.e, FALSE)

FNeg(a) == [a EXCEPT !.s = -a.s]

\* n - m or m - n, the one that is not negative, given the sign c of n - m.
Difference(n, m, c) == BSub(IF c >= 0 THEN n ELSE m, IF c >= 0 THEN m ELSE n)

\* sa * n * 2^e + sb * m * 2^e, given the sign c of n - m.
AddMagnitudes(sa, n, sb, m, e, c) ==
    RoundBig(IF sa = sb \/ c >= 0 THEN sa ELSE sb,
             IF sa = sb THEN BAdd(n, m) ELSE Difference(n, m, c), e, FALSE)

AddShifted(sa, n, sb, m, e) == AddMagnitudes(sa, n, sb, m, e, Cmp(n, m))

\* a + b for a of the larger exponent; beyond 56 bits of distance b is less
\* than an eighth of a unit of a.
AddAligned(a, b) ==
    IF a.e - b.e > 56 THEN a
    ELSE AddShifted(a.s, Shl(a.m, a.e - b.e), b.s, b.m, b.e)

\* a + b
FAdd(a, b) ==
    IF a.s = 0 THEN b ELSE IF b.s = 0 THEN a
    ELSE AddAligned(IF a.e >= b.e THEN a ELSE b, IF a.e >= b.e THEN b ELSE a)

\* a - b
FSub(a, b) == FAdd(a, FNeg(b))

\* Long division in base 2^14 by a divisor v of four full limbs: the estimate
\* qhat of a digit is at most two too large.
RECURSIVE FixDigit(_, _, _, _)
FixDigit(qhat, t, r, v) ==
    IF Cmp(t, r) > 0 THEN FixDigit(qhat - 1, BSub(t, v), r, v)
    ELSE [q |-> qhat, r |-> Pad4(BSub(r, t))]

Qhat(r, v) == Min(Base - 1, (r[4] * Base + r[3]) \div v[4])

\* The next digit of r / v and the remainder, for r < v.
Digit(r, v) == FixDigit(Qhat(r, v), MulLimb(v, Qhat(r, v)), <<0>> \o r, v)

\* The digits of r / v after the leading digit, up to five digits in all
\* (the lowest first in acc), and the remainder.
RECURSIVE Digits(_, _, _)
RECURSIVE DigitsNext(_, _, _)
Digits(r, v, acc) ==
    IF Len(acc) = 5 THEN [q |-> acc, r |-> r] ELSE DigitsNext(Digit(r, v), v, acc)

DigitsNext(d, v, acc) == Digits(d.r, v, <<d.q>> \o acc)

DivRounded(s, e, d) == RoundBig(s, d.q, e, d.r # <<0, 0, 0, 0>>)

\* u / v with 56 binary places, for u < 2 * v
DivLeading(s, e, u, v, lead) ==
    DivRounded(s, e, Digits(IF lead = 1 THEN Pad4(BSub(u, v)) ELSE u, v, <<lead>>))

DivNorm(s, e, u, v) == DivLeading(s, e, u, v, IF Cmp(u, v) >= 0 THEN 1 ELSE 0)

\* a / b, for b other than zero
FDiv(a, b) ==
    IF a.s = 0 THEN Zero
    ELSE DivNorm(a.s * b.s, a.e - b.e - 56, Pad4(Shl(a.m, 3)), Pad4(Shl(b.m, 3)))

RECURSIVE PowLimbs(_, _)
PowLimbs(m, n) == IF n = 1 THEN m ELSE BMul4(PowLimbs(m, n - 1), m)

\* a ** n for an a that is not negative and an int n >= 1: the double nearest
\* to the power.
FPow(a, n) ==
    IF a.s = 0 THEN Zero ELSE RoundBig(1, PowLimbs(a.m, n), a.e * n, FALSE)

\* The sign of a - b.
FCmp(a, b) ==
    IF a.s # b.s THEN (IF a.s > b.s THEN 1 ELSE -1)
    ELSE IF a.s = 0 THEN 0
    ELSE IF a.e # b.e THEN (IF a.e > b.e THEN a.s ELSE -a.s)
    ELSE a.s * Cmp(a.m, b.m)

FLt(a, b) == FCmp(a, b) < 0
FGt(a, b) == FCmp(a, b) > 0

\* max(a, b) and min(a, b)
FMax(a, b) == IF FGt(b, a) THEN b ELSE a
FMin(a, b) == IF FLt(b, a) THEN b ELSE a

\* The integer nearest to d * K (a tie to the even one), K in limbs: how
\* round() and the 'f' format read the decimal digits of a double.
ScaledUp(n, e) == IF e >= 0 THEN ToNat(Shl(n, e), 1) ELSE HalfEven(n, -e)

Scaled(d, K) == IF d.s = 0 THEN 0 ELSE d.s * ScaledUp(BMul4(d.m, K), d.e)

\* 1000000.0 = 32000000 * 2^28 * 2^-33
Million == [s |-> 1, e |-> -33, m |-> <<0, 0, 2048, 1953>>]

\* The double a decimal literal denotes, the literal given in millionths.
Dec(x) == FDiv(FromInt(x), Million)

\* d to the nearest millionth, in millionths.
Millionths(d) == Scaled(d, <<576, 61, 0, 0>>)

\* 1.0 = 2^52 * 2^-52 and 100.0 = 100 * 2^46 * 2^-46
One == [s |-> 1, e |-> -52, m |-> <<0, 0, 0, 1024>>]
Hundred == [s |-> 1, e |-> -46, m |-> <<0, 0, 0, 1600>>]

\* round(x, 2), in millionths: the cents nearest to the double.
Round2(x) == Scaled(x, <<100, 0, 0, 0>>) * 10000

\* f"{x:.1f}", in tenths
Format1f(x) == Scaled(x, <<10, 0, 0, 0>>)

\* f"{x:.1%}", in tenths of a percent: the format multiplies by 100 first.
FormatPercent1(x) == Format1f(FMul(x, Hundred))

\* f"{(a / b * 100):.1f}%", in tenths of a percent (250 stands for "25.0%")
PercentTenths(a, b) == Format1f(FMul(FDiv(a, b), Hundred))

\* A float the program computed, held as its double.
Flt(d) == [k |-> "num", d |-> d]

\* The double of a number: of a computed float, or of a number of the
\* snapshot, which is a decimal literal (an int converts exactly).
Double(x) == IF "d" \in DOMAIN x THEN x.d ELSE Dec(x.v)

\* Python truthiness of a number or None.
Truthy(x) == IsNum(x) /\ (IF "d" \in DOMAIN x THEN x.d.s # 0 ELSE x.v # 0)

\* x > 0 and x < 0 of a number
Positive(x) == IF "d" \in DOMAIN x THEN x.d.s > 0 ELSE x.v > 0
Negative(x) == IF "d" \in DOMAIN x THEN x.d.s < 0 ELSE x.v < 0

----------------------------------------------------------------------------
(* The snapshots of the calculation runs                                   *)

PriceValues == {None, Num(0), Num(Whole(50)), Num(Whole(100))}

PeValues ==
    {Absent, None, Num(Whole(10)), Num(Whole(15)), Num(Whole(20)),
     Num(Whole(30)), Num(Whole(40)), Num(Whole(45))}

EpsValues ==
    {Absent, None, Num(0), Num(Whole(2)), Num(Whole(5)), Num(Whole(10)),
     Num(-Whole(1))}

MarketCapValues ==
    {Absent, None, Num(0), Num(Bn(1)), Num(Bn(5)), Num(Bn(10)), Num(Bn(30)),
     Num(Bn(50)), Num(Bn(200)), Num(Bn(300)), Num(Bn(1000)), Num(Bn(2000))}

\* beta, dividend_yield, pb_ratio, 52w_high, 52w_low
Aux(beta, dividend_yield, pb_ratio, high_52w, low_52w) ==
    [beta |-> beta, dividend_yield |-> dividend_yield, pb_ratio |-> pb_ratio,
     high_52w |-> high_52w, low_52w |-> low_52w]

AuxProfiles ==
    {Aux(Absent, Absent, Absent, Absent, Absent),
     Aux(Num(Whole(1)), Num(0), Absent, Absent, Absent),
     Aux(Num(Milli(1600)), Num(Milli(30)), Num(Whole(2)), Num(Whole(120)),
         Num(Whole(80))),
     Aux(None, Absent, Num(Whole(4)), Absent, Absent),
     Aux(Num(Whole(1)), Num(0), Num(-Whole(2)), Num(Whole(120)), Num(Whole(120))),
     Aux(Num(Milli(700)), None, Num(Whole(2)), Num(Whole(120)), Num(Whole(80))),
     Aux(Num(Milli(1300)), Num(Milli(15)), None, Num(Whole(104)), None)}

Snapshot(symbol, current_price, pe_ratio, eps, market_cap, aux) ==
    [symbol |-> symbol, current_price |-> current_price, pe_ratio |-> pe_ratio,
     eps |-> eps, market_cap |-> market_cap, beta |-> aux.beta,
     dividend_yield |-> aux.dividend_yield, pb_ratio |-> aux.pb_ratio]
    @@ ("52w_high" :> aux.high_52w) @@ ("52w_low" :> aux.low_52w)

Snapshots ==
    {Snapshot(<<"T", "E", "S", "T">>, p, pe, e, m, x) :
        p \in PriceValues, pe \in PeValues, e \in EpsValues,
        m \in MarketCapValues, x \in AuxProfiles}

NoReturn == [raised |-> FALSE]

\* No helper was applied on its own.
NoArgs == [helper |-> "none"]

\* What stock_data.get(key, default) reads for the values a key takes.
Read(values, default) == {IF x.k = "absent" THEN default ELSE x : x \in values}

----------------------------------------------------------------------------
(* FreeStockAnalyzer: the DCF calculator                                   *)

\* A variant of the tier selector whose thresholds belong to the upper tier.
TierAssumptionsInclusive(market_cap) ==
    IF market_cap >= Bn(1000)
    THEN [growth_rate_5y |-> 60, terminal_growth_rate |-> 25, discount_rate |-> 80]
    ELSE IF market_cap >= Bn(200)
    THEN [growth_rate_5y |-> 80, terminal_growth_rate |-> 30, discount_rate |-> 90]
    ELSE IF market_cap >= Bn(10)
    THEN [growth_rate_5y |-> 100, terminal_growth_rate |-> 35, discount_rate |-> 100]
    ELSE [growth_rate_5y |-> 120, terminal_growth_rate |-> 40, discount_rate |-> 120]

\* The assumption bundle of a market-cap tier; rates in thousandths, which is
\* also how f"{rate:.1%}" prints them (60 stands for "6.0%").
TierAssumptions(market_cap) ==
    IF market_cap > Bn(1000)
    THEN [growth_rate_5y |-> 60, terminal_growth_rate |-> 25, discount_rate |-> 80]
    ELSE IF market_cap > Bn(200)
    THEN [growth_rate_5y |-> 80, terminal_growth_rate |-> 30, discount_rate |-> 90]
    ELSE IF market_cap > Bn(10)
    THEN [growth_rate_5y |-> 100, terminal_growth_rate |-> 35, discount_rate |-> 100]
    ELSE [growth_rate_5y |-> 120, terminal_growth_rate |-> 40, discount_rate |-> 120]

\* The double of a rate literal (0.06, 0.025, ...), the rate in thousandths.
Rate(t) == Dec(Milli(t))

\* (1 + rate) ** year
Compound(t, year) == FPow(FAdd(One, Rate(t)), year)

\* A variant of the projection without growth.
ProjectedCfFlat(eps, a, year) == eps

\* future_cf = current_cf * (1 + growth_rate_5y) ** year
ProjectedCf(eps, a, year) == FMul(eps, Compound(a.growth_rate_5y, year))

\* present_value = future_cf / (1 + discount_rate) ** year
PresentValue(eps, a, year) ==
    FDiv(ProjectedCf(eps, a, year), Compound(a.discount_rate, year))

\* sum([cf['present_value'] ...]): from 0, one year after the other
RECURSIVE SumPresentValues(_, _, _)
SumPresentValues(eps, a, year) ==
    IF year = 0 THEN Zero
    ELSE FAdd(SumPresentValues(eps, a, year - 1), PresentValue(eps, a, year))

\* terminal_cf / (discount_rate - terminal_growth_rate)
TerminalValue(eps, a) ==
    FDiv(FMul(ProjectedCf(eps, a, 5), FAdd(One, Rate(a.terminal_growth_rate))),
         FSub(Rate(a.discount_rate), Rate(a.terminal_growth_rate)))

TerminalPv(eps, a) == FDiv(TerminalValue(eps, a), Compound(a.discount_rate, 5))

\* dcf_fair_value = sum_pv_cashflows + terminal_pv, for the double eps
DcfFairValue(eps, a) == FAdd(SumPresentValues(eps, a, 5), TerminalPv(eps, a))

\* The literals of the band thresholds.
Lit115 == Dec(1150000)
Lit105 == Dec(1050000)
Lit095 == Dec(950000)
Lit085 == Dec(850000)

\* The five bands of the DCF calculator, on doubles.
DcfAssessment(dcf_fair_value, current_price) ==
    IF FGt(dcf_fair_value, FMul(current_price, Lit115)) THEN "Significantly Undervalued"
    ELSE IF FGt(dcf_fair_value, FMul(current_price, Lit105)) THEN "Undervalued"
    ELSE IF FLt(dcf_fair_value, FMul(current_price, Lit085))
    THEN "Significantly Overvalued"
    ELSE IF FLt(dcf_fair_value, FMul(current_price, Lit095)) THEN "Overvalued"
    ELSE "Fair Value"

\* A variant that reports no fair value at all when the inputs are insufficient.
DcfUnableZero(status, current_price) ==
    [method |-> "DCF Analysis", status |-> status, fair_value |-> Num(0),
     assessment |-> "Unable to calculate"]

\* The record of the early return (lines 666-672) and of the handler.
DcfUnable(status, current_price) ==
    [method |-> "DCF Analysis", status |-> status, fair_value |-> current_price,
     assessment |-> "Unable to calculate"]

\* The record of a completed calculation (lines 733-749); upside_potential in
\* tenths of a percent, 0 for a price that is not positive.
DcfCompleted(a, dcf_fair_value, current_price) ==
    [method |-> "DCF Analysis",
     assumptions |-> a,
     fair_value |-> Flt(dcf_fair_value),
     current_price |-> current_price,
     upside_potential |->
         IF current_price.v > 0
         THEN PercentTenths(FSub(dcf_fair_value, Double(current_price)),
                            Double(current_price))
         ELSE 0,
     assessment |-> DcfAssessment(dcf_fair_value, Double(current_price)),
     status |-> "Completed"]

\* _calculate_dcf_valuation on the eps, current_price and market_cap it reads.
\* A None market_cap or current_price raises a TypeError inside the try block
\* (market_cap > 1e12, current_price > 0) and the handler returns the
\* 'Error: ...' record.
DcfValuation(eps, current_price, market_cap) ==
    IF ~Truthy(eps) THEN DcfUnable("Insufficient data", current_price)
    ELSE IF IsNone(market_cap) \/ IsNone(current_price)
    THEN DcfUnable("Error", current_price)
    ELSE DcfCompleted(TierAssumptions(market_cap.v),
                      DcfFairValue(Double(eps), TierAssumptions(market_cap.v)),
                      current_price)

\* The DCF valuations of the snapshots, as a table: joined with the empty
\* function, the function is an explicit table of its values, each computed
\* once, not a rule evaluated again at every application.
DcfInputs ==
    Read(EpsValues, Num(0)) \X Read(PriceValues, Num(0))
        \X Read(MarketCapValues, Num(0))

DcfValuations == [key \in DcfInputs |-> DcfValuation(key[1], key[2], key[3])]
    @@ <<>>

DcfValuationOf(key) ==
    Lookup(DcfValuations, key, DcfValuation(key[1], key[2], key[3]))

\* _calculate_dcf_valuation
_calculate_dcf_valuation(sd) ==
    DcfValuationOf(<<Get(sd, "eps", Num(0)), Get(sd, "current_price", Num(0)),
                     Get(sd, "market_cap", Num(0))>>)

----------------------------------------------------------------------------
(* FreeStockAnalyzer: the comparative (multiples) calculator               *)

\* The five bands of the comparative calculator (its own copy of the code).
ComparativeAssessment(avg_fair_value, current_price) ==
    IF FGt(avg_fair_value, FMul(current_price, Lit115)) THEN "Significantly Undervalued"
    ELSE IF FGt(avg_fair_value, FMul(current_price, Lit105)) THEN "Undervalued"
    ELSE IF FLt(avg_fair_value, FMul(current_price, Lit085))
    THEN "Significantly Overvalued"
    ELSE IF FLt(avg_fair_value, FMul(current_price, Lit095)) THEN "Overvalued"
    ELSE "Fair Value"

\* pe_fair_value = eps * industry_averages['pe_ratio']
PeFairValue(eps) == FMul(eps, FromInt(20))

\* book_value_per_share = current_price / pb_ratio if pb_ratio > 0 else 0
\* pb_fair_value = book_value_per_share * industry_averages['pb_ratio']
PbFairValue(current_price, pb_ratio) ==
    FMul(IF pb_ratio.s > 0 THEN FDiv(current_price, pb_ratio) ELSE Zero,
         Dec(2500000))

\* sum(s): from 0, one element after the other; n is len(s)
RECURSIVE Sum(_, _)
Sum(s, n) == IF n = 0 THEN Zero ELSE FAdd(Sum(s, n - 1), s[n])

\* The estimates that enter the average, in the order the code appends them.
FairValues(current_price, pe_ratio, pb_ratio, eps) ==
    (IF Truthy(pe_ratio) /\ Truthy(eps) THEN <<PeFairValue(Double(eps))>> ELSE <<>>)
    \o (IF Truthy(pb_ratio) /\ Truthy(current_price)
        THEN <<PbFairValue(Double(current_price), Double(pb_ratio))>> ELSE <<>>)

ComparativeFairValues(sd) ==
    FairValues(Get(sd, "current_price", Num(0)), Get(sd, "pe_ratio", Num(0)),
               Get(sd, "pb_ratio", Num(0)), Get(sd, "eps", Num(0)))

\* The keys of valuation_methods.
ValuationMethods(sd) ==
    LET current_price == Get(sd, "current_price", Num(0))
        pe_ratio == Get(sd, "pe_ratio", Num(0))
        pb_ratio == Get(sd, "pb_ratio", Num(0))
        eps == Get(sd, "eps", Num(0))
        dividend_yield == Get(sd, "dividend_yield", Num(0))
    IN  (IF Truthy(pe_ratio) /\ Truthy(eps) THEN {"pe_multiple"} ELSE {})
        \cup (IF Truthy(pb_ratio) /\ Truthy(current_price)
              THEN {"pb_multiple"} ELSE {})
        \cup (IF Truthy(dividend_yield) THEN {"dividend_yield"} ELSE {})

\* avg_fair_value = sum(fair_values) / len(fair_values)
AverageFairValue(fair_values) ==
    FDiv(Sum(fair_values, Len(fair_values)), FromInt(Len(fair_values)))

\* The record of a valuation with an estimate (lines 915-928 and 934-942);
\* upside_potential is the formatted string, in tenths of a percent.
ComparativeEstimated(avg_fair_value, current_price) ==
    [status |-> "Completed",
     average_fair_value |-> Flt(avg_fair_value),
     upside_potential |->
         IF current_price.v > 0
         THEN PercentTenths(FSub(avg_fair_value, Double(current_price)),
                            Double(current_price))
         ELSE 0,
     assessment |-> ComparativeAssessment(avg_fair_value, Double(current_price))]

\* The record of a valuation without an estimate (lines 929-942).
ComparativeWithoutEstimate(current_price) ==
    [status |-> "Completed", average_fair_value |-> current_price,
     upside_potential |-> 0, assessment |-> "Unable to determine"]

\* With an estimate present and a None current_price, current_price > 0
\* raises and the handler returns the 'Error: ...' record, which has no
\* average_fair_value.
ComparativeFrom(fair_values, current_price) ==
    IF fair_values # <<>> /\ IsNone(current_price)
    THEN [status |-> "Error", average_fair_value |-> Absent,
          assessment |-> "Unable to calculate"]
    ELSE IF fair_values # <<>>
    THEN ComparativeEstimated(AverageFairValue(fair_values), current_price)
    ELSE ComparativeWithoutEstimate(current_price)

\* The part of _calculate_comparative_valuation that the estimates decide.
ComparativeValuation(current_price, pe_ratio, pb_ratio, eps) ==
    ComparativeFrom(FairValues(current_price, pe_ratio, pb_ratio, eps),
                    current_price)

\* The comparative valuations of the snapshots, computed once.
ComparativeInputs ==
    Read(PriceValues, Num(0)) \X Read(PeValues, Num(0))
        \X Read({x.pb_ratio : x \in AuxProfiles}, Num(0)) \X Read(EpsValues, Num(0))

ComparativeValuations ==
    [key \in ComparativeInputs |-> ComparativeValuation(key[1], key[2], key[3], key[4])]
    @@ <<>>

ComparativeValuationOf(key) ==
    Lookup(ComparativeValuations, key,
           ComparativeValuation(key[1], key[2], key[3], key[4]))

\* _calculate_comparative_valuation
_calculate_comparative_valuation(sd) ==
    [method |-> "Comparative Valuation",
     valuation_methods |->
         IF ComparativeValuationOf(
                <<Get(sd, "current_price", Num(0)), Get(sd, "pe_ratio", Num(0)),
                  Get(sd, "pb_ratio", Num(0)), Get(sd, "eps", Num(0))>>).status
            = "Completed"
         THEN ValuationMethods(sd) ELSE {}]
    @@ ComparativeValuationOf(
           <<Get(sd, "current_price", Num(0)), Get(sd, "pe_ratio", Num(0)),
             Get(sd, "pb_ratio", Num(0)), Get(sd, "eps", Num(0))>>)

----------------------------------------------------------------------------
(* FreeStockAnalyzer: the blended fair value                               *)

\* The (fair value, weight in tenths) pairs that enter the blend.
BlendEntries(dcf_valuation, comparative_valuation) ==
    (IF dcf_valuation.status = "Completed" /\ Positive(dcf_valuation.fair_value)
     THEN <<[fv |-> Double(dcf_valuation.fair_value), w |-> 4]>> ELSE <<>>)
    \o (IF comparative_valuation.status = "Completed"
           /\ Positive(comparative_valuation.average_fair_value)
        THEN <<[fv |-> Double(comparative_valuation.average_fair_value), w |-> 6]>>
        ELSE <<>>)

\* The double of a weight literal (0.4, 0.6), the weight in tenths.
Weight(w) == Dec(w * 100000)

\* total_weight = sum(weights)
RECURSIVE WeightSum(_, _)
WeightSum(es, n) ==
    IF n = 0 THEN Zero ELSE FAdd(WeightSum(es, n - 1), Weight(es[n].w))

\* sum(fv * w for fv, w in zip(fair_values, normalized_weights)), with
\* normalized_weights = [w / total_weight for w in weights]
RECURSIVE WeightedSum(_, _, _)
WeightedSum(es, total, n) ==
    IF n = 0 THEN Zero
    ELSE FAdd(WeightedSum(es, total, n - 1),
              FMul(es[n].fv, FDiv(Weight(es[n].w), total)))

\* A variant that gives each contributing method half of the confidence.
ConfidenceHalfPerMethod(n) == Min(n * 50, 100)

\* confidence = min(len(fair_values) * 25, 100)
Confidence(n) == Min(n * 25, 100)

\* The record of the handler (lines 989-995).
BlendRaised(current_price) ==
    [weighted_fair_value |-> current_price, confidence_level |-> 0,
     methods_used |-> 0, error |-> TRUE]

\* The record of a blend of at least one method (lines 967-979) for a price
\* that is a number; implied_return is the formatted string, in tenths of a
\* percent, or "N/A".
Blended(es, weighted_fair_value, current_price) ==
    [weighted_fair_value |-> Flt(weighted_fair_value),
     confidence_level |-> Confidence(Len(es)),
     methods_used |-> Len(es),
     current_price |-> current_price,
     implied_return |->
         IF current_price.v > 0
         THEN [na |-> FALSE,
               tenths |-> PercentTenths(FSub(weighted_fair_value,
                                             Double(current_price)),
                                        Double(current_price))]
         ELSE [na |-> TRUE, tenths |-> 0],
     error |-> FALSE]

\* The blend of the entries.  With an entry present and a None current_price,
\* current_price > 0 raises while implied_return is formatted (line 978).
Blend(es, current_price) ==
    IF es # <<>> /\ IsNone(current_price) THEN BlendRaised(current_price)
    ELSE IF es # <<>>
    THEN Blended(es, WeightedSum(es, WeightSum(es, Len(es)), Len(es)),
                 current_price)
    ELSE [weighted_fair_value |-> current_price, confidence_level |-> 0,
          methods_used |-> 0, current_price |-> current_price,
          implied_return |-> [na |-> FALSE, tenths |-> 0], error |-> FALSE]

\* The blends of the snapshots, computed once.
BlendInputs ==
    {<<BlendEntries(DcfValuations[<<e, p, m>>],
                    ComparativeValuations[<<p, pe, pb, e>>]), p>> :
        e \in Read(EpsValues, Num(0)), p \in Read(PriceValues, Num(0)),
        m \in Read(MarketCapValues, Num(0)), pe \in Read(PeValues, Num(0)),
        pb \in Read({x.pb_ratio : x \in AuxProfiles}, Num(0))}

Blends == [key \in BlendInputs |-> Blend(key[1], key[2])]
    @@ <<>>

BlendOf(key) == Lookup(Blends, key, Blend(key[1], key[2]))

\* _calculate_weighted_fair_value.  A 'Completed' record whose fair value is
\* None makes "> 0" raise (line 958 for the DCF record, line 963 for the
\* comparative record); the handler returns the record with the 'error' key.
_calculate_weighted_fair_value(dcf_valuation, comparative_valuation, current_price) ==
    IF \/ dcf_valuation.status = "Completed" /\ IsNone(dcf_valuation.fair_value)
       \/ comparative_valuation.status = "Completed"
          /\ IsNone(comparative_valuation.average_fair_value)
    THEN BlendRaised(current_price)
    ELSE BlendOf(<<BlendEntries(dcf_valuation, comparative_valuation),
                   current_price>>)

\* 'undervalued' in a.lower() / 'overvalued' in a.lower() / 'fair' in a.lower()
UnderLabels == {"Significantly Undervalued", "Undervalued"}
OverLabels == {"Significantly Overvalued", "Overvalued"}
FairLabels == {"Fair Value"}

\* sum(1 for a in assessments if ... in a.lower())
Count(s, labels) == Cardinality({i \in DOMAIN s : s[i] \in labels})

\* _determine_overall_valuation_assessment
_determine_overall_valuation_assessment(dcf_valuation, comparative_valuation) ==
    LET assessments ==
            (IF dcf_valuation.status = "Completed"
             THEN <<dcf_valuation.assessment>> ELSE <<>>)
            \o (IF comparative_valuation.status = "Completed"
                THEN <<comparative_valuation.assessment>> ELSE <<>>)
        under == Count(assessments, UnderLabels)
        over == Count(assessments, OverLabels)
        fair == Count(assessments, FairLabels)
    IN  IF assessments = <<>> THEN "Unable to determine valuation"
        ELSE IF under > over /\ under > fair
        THEN (IF under = Len(assessments) THEN "Strong Undervaluation Signal"
              ELSE "Likely Undervalued")
        ELSE IF over > under /\ over > fair
        THEN (IF over = Len(assessments) THEN "Strong Overvaluation Signal"
              ELSE "Likely Overvalued")
        ELSE "Mixed Signals - Fair Value Range"

----------------------------------------------------------------------------
(* FreeStockAnalyzer: the WACC calculator                                  *)

\* Debt-to-equity (in hundredths) by company size.
DebtToEquity(market_cap) ==
    IF market_cap > Bn(50) THEN 30 ELSE IF market_cap > Bn(10) THEN 25 ELSE 20

\* A variant of the credit spread whose thresholds belong to the upper band.
CreditSpreadInclusive(market_cap) ==
    IF market_cap >= Bn(50) THEN Milli(20)
    ELSE IF market_cap >= Bn(10) THEN Milli(30) ELSE Milli(50)

\* Credit spread over the risk-free rate by company size.
CreditSpread(market_cap) ==
    IF market_cap > Bn(50) THEN Milli(20)
    ELSE IF market_cap > Bn(10) THEN Milli(30) ELSE Milli(50)

\* cost_of_equity = risk_free_rate + (beta * market_risk_premium)
CostOfEquity(beta) == FAdd(Dec(Milli(45)), FMul(beta, Dec(Milli(65))))

\* cost_of_debt = risk_free_rate + credit_spread
CostOfDebt(market_cap) == FAdd(Dec(Milli(45)), Dec(CreditSpread(market_cap)))

\* after_tax_cost_of_debt = cost_of_debt * (1 - tax_rate)
AfterTaxCostOfDebt(market_cap) ==
    FMul(CostOfDebt(market_cap), FSub(One, Dec(Milli(250))))

\* equity_weight = 1 / (1 + debt_to_equity), debt_to_equity in hundredths
EquityWeight(debt_to_equity) ==
    FDiv(One, FAdd(One, Dec(debt_to_equity * 10000)))

\* debt_weight = debt_to_equity / (1 + debt_to_equity)
DebtWeight(debt_to_equity) ==
    FDiv(Dec(debt_to_equity * 10000), FAdd(One, Dec(debt_to_equity * 10000)))

\* wacc = (equity_weight * cost_of_equity) + (debt_weight * after_tax_cost_of_debt)
Wacc(beta, market_cap) ==
    FAdd(FMul(EquityWeight(DebtToEquity(market_cap)), CostOfEquity(beta)),
         FMul(DebtWeight(DebtToEquity(market_cap)), AfterTaxCostOfDebt(market_cap)))

_interpret_wacc(wacc) ==
    IF FLt(wacc, Dec(Milli(80))) THEN "Low cost of capital - favorable for investment"
    ELSE IF FLt(wacc, Dec(Milli(120)))
    THEN "Moderate cost of capital - typical for most companies"
    ELSE "High cost of capital - higher risk profile"

\* The record of a completed calculation (lines 799-819).  The weights and
\* 'wacc' are the formatted f"{x:.1%}", in tenths of a percent; debt_to_equity
\* is in hundredths and credit_spread in millionths.
WaccCompleted(beta, market_cap, wacc) ==
    [method |-> "WACC Analysis", status |-> "Completed",
     beta |-> beta.v,
     debt_to_equity |-> DebtToEquity(market_cap.v),
     equity_weight |-> FormatPercent1(EquityWeight(DebtToEquity(market_cap.v))),
     debt_weight |-> FormatPercent1(DebtWeight(DebtToEquity(market_cap.v))),
     credit_spread |-> CreditSpread(market_cap.v),
     wacc |-> FormatPercent1(wacc),
     wacc_decimal |-> Flt(wacc),
     interpretation |-> _interpret_wacc(wacc)]

\* _calculate_wacc on the beta and market_cap it reads.  A None beta or
\* market_cap raises inside the try block.
WaccAnalysis(beta, market_cap) ==
    IF IsNone(beta) \/ IsNone(market_cap)
    THEN [method |-> "WACC Analysis", status |-> "Error",
          wacc |-> "Unable to calculate"]
    ELSE WaccCompleted(beta, market_cap, Wacc(Double(beta), market_cap.v))

\* The WACC analyses of the snapshots, computed once.
WaccInputs ==
    Read({x.beta : x \in AuxProfiles}, Num(Whole(1)))
        \X Read(MarketCapValues, Num(0))

WaccAnalyses == [key \in WaccInputs |-> WaccAnalysis(key[1], key[2])]
    @@ <<>>

WaccAnalysisOf(key) == Lookup(WaccAnalyses, key, WaccAnalysis(key[1], key[2]))

\* _calculate_wacc
_calculate_wacc(sd) ==
    WaccAnalysisOf(<<Get(sd, "beta", Num(Whole(1))), Get(sd, "market_cap", Num(0))>>)

----------------------------------------------------------------------------
(* FreeStockAnalyzer: financial statement analysis                         *)

_score_to_assessment(score, max_score) ==
    IF score * 10 >= 8 * max_score THEN "Excellent"
    ELSE IF score * 10 >= 6 * max_score THEN "Good"
    ELSE IF score * 10 >= 4 * max_score THEN "Average"
    ELSE IF score * 10 >= 2 * max_score THEN "Below Average"
    ELSE "Poor"

_analyze_profitability(eps, pe_ratio) ==
    (IF eps > 0 THEN 3 + (IF eps > Whole(2) THEN 2 ELSE 0) ELSE 0)
    + (IF pe_ratio > 0 /\ pe_ratio < Whole(25) THEN 2 ELSE 0)

_analyze_liquidity(market_cap) ==
    IF market_cap > Bn(10) THEN 5 ELSE IF market_cap > Bn(2) THEN 3 ELSE 1

_analyze_leverage(dividend_yield, market_cap) ==
    (IF dividend_yield > Milli(30) THEN 3
     ELSE IF dividend_yield > Milli(10) THEN 2 ELSE 1)
    + (IF market_cap > Bn(10) THEN 2 ELSE 0)

_analyze_efficiency(pe_ratio, beta) ==
    (IF pe_ratio > 0 /\ pe_ratio < Whole(20) THEN 3
     ELSE IF pe_ratio > 0 /\ pe_ratio < Whole(30) THEN 2 ELSE 0)
    + (IF Milli(800) <= beta /\ beta <= Milli(1200) THEN 2 ELSE 0)

_analyze_valuation_ratios(pe_ratio, pb_ratio) ==
    (IF pe_ratio > 0
     THEN (IF pe_ratio < Whole(15) THEN 3 ELSE IF pe_ratio < Whole(25) THEN 2 ELSE 1)
     ELSE 0)
    + (IF pb_ratio > 0
       THEN (IF pb_ratio < Whole(2) THEN 2 ELSE IF pb_ratio < Whole(3) THEN 1 ELSE 0)
       ELSE 0)

_analyze_growth_metrics(pe_ratio, market_cap) ==
    (IF pe_ratio > Whole(20) THEN 2 ELSE IF pe_ratio > Whole(15) THEN 1 ELSE 0)
    + (IF market_cap < Bn(10) THEN 2 ELSE IF market_cap < Bn(50) THEN 1 ELSE 0)

_assign_financial_grade(score) ==
    IF score >= 20 THEN "A+ (Excellent)"
    ELSE IF score >= 17 THEN "A (Very Good)"
    ELSE IF score >= 14 THEN "B+ (Good)"
    ELSE IF score >= 11 THEN "B (Above Average)"
    ELSE IF score >= 8 THEN "C+ (Average)"
    ELSE IF score >= 5 THEN "C (Below Average)"
    ELSE "D (Poor)"

\* _calculate_financial_health_score: the sum of the six category scores.
_calculate_financial_health_score(a) ==
    a.profitability_score + a.liquidity_score + a.leverage_score
    + a.efficiency_score + a.valuation_score + a.growth_score

\* _analyze_financial_statements.  Each helper compares its inputs without a
\* truthiness guard, so a None among them raises inside the try block.
_analyze_financial_statements(sd) ==
    LET eps == Get(sd, "eps", Num(0))
        pe_ratio == Get(sd, "pe_ratio", Num(0))
        market_cap == Get(sd, "market_cap", Num(0))
        dividend_yield == Get(sd, "dividend_yield", Num(0))
        beta == Get(sd, "beta", Num(Whole(1)))
        pb_ratio == Get(sd, "pb_ratio", Num(0))
    IN  IF \E x \in {eps, pe_ratio, market_cap, dividend_yield, beta, pb_ratio} :
               IsNone(x)
        THEN [method |-> "Financial Statement Analysis", status |-> "Error",
              summary |-> "Unable to complete analysis"]
        ELSE LET a == [profitability_score |-> _analyze_profitability(eps.v, pe_ratio.v),
                       liquidity_score |-> _analyze_liquidity(market_cap.v),
                       leverage_score |->
                           _analyze_leverage(dividend_yield.v, market_cap.v),
                       efficiency_score |-> _analyze_efficiency(pe_ratio.v, beta.v),
                       valuation_score |->
                           _analyze_valuation_ratios(pe_ratio.v, pb_ratio.v),
                       growth_score |->
                           _analyze_growth_metrics(pe_ratio.v, market_cap.v)]
             IN  [method |-> "Financial Statement Analysis", status |-> "Completed",
                  scores |-> a,
                  assessments |->
                      [profitability |-> _score_to_assessment(a.profitability_score, 5),
                       liquidity |-> _score_to_assessment(a.liquidity_score, 5),
                       leverage |-> _score_to_assessment(a.leverage_score, 5),
                       efficiency |-> _score_to_assessment(a.efficiency_score, 5),
                       valuation |-> _score_to_assessment(a.valuation_score, 5),
                       growth |-> _score_to_assessment(a.growth_score, 4)],
                  overall_score |-> _calculate_financial_health_score(a),
                  grade |-> _assign_financial_grade(
                                _calculate_financial_health_score(a))]

\* _perform_basic_valuation: every method it runs has its own handler, so it
\* returns a record for every snapshot.
_perform_basic_valuation(sd) ==
    LET current_price == Get(sd, "current_price", Num(0))
        Results(dcf_valuation, comparative_valuation) ==
            [current_price |-> current_price,
             dcf_analysis |-> dcf_valuation,
             wacc_analysis |-> _calculate_wacc(sd),
             financial_statement_analysis |-> _analyze_financial_statements(sd),
             comparative_valuation |-> comparative_valuation,
             weighted_fair_value |->
                 _calculate_weighted_fair_value(dcf_valuation,
                                                comparative_valuation,
                                                current_price),
             assessment |->
                 _determine_overall_valuation_assessment(dcf_valuation,
                                                         comparative_valuation)]
    IN  Results(_calculate_dcf_valuation(sd), _calculate_comparative_valuation(sd))

----------------------------------------------------------------------------
(* FreeStockAnalyzer: the rule-based recommendation                        *)

\* A variant of the P/E bands whose thresholds belong to the outer band.
PeBandInclusive(pe_ratio) ==
    IF Truthy(pe_ratio) /\ pe_ratio.v <= Whole(12)
    THEN [basic_recommendation |-> "STRONG BUY", factor |-> 125]
    ELSE IF Truthy(pe_ratio) /\ pe_ratio.v <= Whole(18)
    THEN [basic_recommendation |-> "BUY", factor |-> 115]
    ELSE IF Truthy(pe_ratio) /\ pe_ratio.v >= Whole(35)
    THEN [basic_recommendation |-> "SELL", factor |-> 85]
    ELSE IF Truthy(pe_ratio) /\ pe_ratio.v >= Whole(25)
    THEN [basic_recommendation |-> "HOLD", factor |-> 95]
    ELSE [basic_recommendation |-> "HOLD", factor |-> 105]

\* The first-pass P/E band: the label and the target as a ratio of the price
\* in hundredths (lines 86-105).
PeBand(pe_ratio) ==
    IF Truthy(pe_ratio) /\ pe_ratio.v < Whole(12)
    THEN [basic_recommendation |-> "STRONG BUY", factor |-> 125]
    ELSE IF Truthy(pe_ratio) /\ pe_ratio.v < Whole(18)
    THEN [basic_recommendation |-> "BUY", factor |-> 115]
    ELSE IF Truthy(pe_ratio) /\ pe_ratio.v > Whole(35)
    THEN [basic_recommendation |-> "SELL", factor |-> 85]
    ELSE IF Truthy(pe_ratio) /\ pe_ratio.v > Whole(25)
    THEN [basic_recommendation |-> "HOLD", factor |-> 95]
    ELSE [basic_recommendation |-> "HOLD", factor |-> 105]

\* A variant of the adjustment that raises labels and never lowers one.
AdjustRecommendationNeverLowers(basic_recommendation, dcf_assessment) ==
    IF dcf_assessment = "Significantly Undervalued"
    THEN (IF basic_recommendation \in {"HOLD", "BUY"} THEN "STRONG BUY"
          ELSE IF basic_recommendation = "SELL" THEN "HOLD"
          ELSE basic_recommendation)
    ELSE IF dcf_assessment = "Undervalued"
    THEN (IF basic_recommendation = "HOLD" THEN "BUY"
          ELSE IF basic_recommendation = "SELL" THEN "HOLD"
          ELSE basic_recommendation)
    ELSE basic_recommendation

\* A variant of the adjustment in which a SELL stays a SELL under an
\* undervalued DCF.
AdjustRecommendationKeepsSell(basic_recommendation, dcf_assessment) ==
    IF dcf_assessment = "Significantly Undervalued"
    THEN (IF basic_recommendation \in {"HOLD", "BUY"} THEN "STRONG BUY"
          ELSE basic_recommendation)
    ELSE IF dcf_assessment = "Undervalued"
    THEN (IF basic_recommendation = "HOLD" THEN "BUY"
          ELSE basic_recommendation)
    ELSE IF dcf_assessment = "Significantly Overvalued"
    THEN (IF basic_recommendation \in {"STRONG BUY", "BUY"} THEN "HOLD"
          ELSE IF basic_recommendation = "HOLD" THEN "SELL"
          ELSE basic_recommendation)
    ELSE IF dcf_assessment = "Overvalued"
    THEN (IF basic_recommendation = "STRONG BUY" THEN "BUY"
          ELSE IF basic_recommendation = "BUY" THEN "HOLD"
          ELSE basic_recommendation)
    ELSE basic_recommendation

\* A variant of the adjustment in which a significantly overvalued DCF turns
\* a SELL into a HOLD.
AdjustRecommendationLiftsSell(basic_recommendation, dcf_assessment) ==
    IF dcf_assessment = "Significantly Undervalued"
    THEN (IF basic_recommendation \in {"HOLD", "BUY"} THEN "STRONG BUY"
          ELSE IF basic_recommendation = "SELL" THEN "HOLD"
          ELSE basic_recommendation)
    ELSE IF dcf_assessment = "Undervalued"
    THEN (IF basic_recommendation = "HOLD" THEN "BUY"
          ELSE IF basic_recommendation = "SELL" THEN "HOLD"
          ELSE basic_recommendation)
    ELSE IF dcf_assessment = "Significantly Overvalued"
    THEN (IF basic_recommendation \in {"STRONG BUY", "BUY", "SELL"} THEN "HOLD"
          ELSE IF basic_recommendation = "HOLD" THEN "SELL"
          ELSE basic_recommendation)
    ELSE IF dcf_assessment = "Overvalued"
    THEN (IF basic_recommendation = "STRONG BUY" THEN "BUY"
          ELSE IF basic_recommendation = "BUY" THEN "HOLD"
          ELSE basic_recommendation)
    ELSE basic_recommendation

\* The adjustment of the label by a completed DCF (lines 120-143).
AdjustRecommendation(basic_recommendation, dcf_assessment) ==
    IF dcf_assessment = "Significantly Undervalued"
    THEN (IF basic_recommendation \in {"HOLD", "BUY"} THEN "STRONG BUY"
          ELSE IF basic_recommendation = "SELL" THEN "HOLD"
          ELSE basic_recommendation)
    ELSE IF dcf_assessment = "Undervalued"
    THEN (IF basic_recommendation = "HOLD" THEN "BUY"
          ELSE IF basic_recommendation = "SELL" THEN "HOLD"
          ELSE basic_recommendation)
    ELSE IF dcf_assessment = "Significantly Overvalued"
    THEN (IF basic_recommendation \in {"STRONG BUY", "BUY"} THEN "HOLD"
          ELSE IF basic_recommendation = "HOLD" THEN "SELL"
          ELSE basic_recommendation)
    ELSE IF dcf_assessment = "Overvalued"
    THEN (IF basic_recommendation = "STRONG BUY" THEN "BUY"
          ELSE IF basic_recommendation = "BUY" THEN "HOLD"
          ELSE basic_recommendation)
    ELSE basic_recommendation

\* A variant that leaves the P/E-band target as it is.
AdjustTargetUnclamped(price_target, dcf_assessment, dcf_fair_value) ==
    price_target

\* A variant in which a DCF at "Fair Value" moves the target to the DCF fair
\* value.
AdjustTargetToFairValue(price_target, dcf_assessment, dcf_fair_value) ==
    IF dcf_assessment = "Significantly Undervalued"
    THEN FMax(price_target, FMul(dcf_fair_value, Dec(900000)))
    ELSE IF dcf_assessment = "Undervalued"
    THEN FMax(price_target, FMul(dcf_fair_value, Lit095))
    ELSE IF dcf_assessment = "Significantly Overvalued"
    THEN FMin(price_target, FMul(dcf_fair_value, Dec(1100000)))
    ELSE IF dcf_assessment = "Overvalued"
    THEN FMin(price_target, FMul(dcf_fair_value, Lit105))
    ELSE dcf_fair_value

\* The adjustment of the price target by a completed DCF (lines 125, 131,
\* 137 and 143), on doubles.
AdjustTarget(price_target, dcf_assessment, dcf_fair_value) ==
    IF dcf_assessment = "Significantly Undervalued"
    THEN FMax(price_target, FMul(dcf_fair_value, Dec(900000)))
    ELSE IF dcf_assessment = "Undervalued"
    THEN FMax(price_target, FMul(dcf_fair_value, Lit095))
    ELSE IF dcf_assessment = "Significantly Overvalued"
    THEN FMin(price_target, FMul(dcf_fair_value, Dec(1100000)))
    ELSE IF dcf_assessment = "Overvalued"
    THEN FMin(price_target, FMul(dcf_fair_value, Lit105))
    ELSE price_target

\* price_target of the first pass: current_price * 1.25, ..., the factor in
\* hundredths.
BasicTarget(current_price, factor) == FMul(current_price, Dec(factor * 10000))

\* price_target after the adjustment, for a price that is a number; dcf holds
\* the status, assessment and fair_value of dcf_analysis.
FinalTarget(current_price, factor, dcf) ==
    IF dcf.status = "Completed"
    THEN AdjustTarget(BasicTarget(Double(current_price), factor), dcf.assessment,
                      Double(dcf.fair_value))
    ELSE BasicTarget(Double(current_price), factor)

\* target_price (in millionths) and upside_potential (in tenths of a percent,
\* or "N/A") of the returned dict (lines 150 and 166).
Reported(current_price, price_target) ==
    [target_price |->
         IF price_target.s # 0 THEN Round2(price_target) ELSE current_price.v,
     upside_potential |->
         IF price_target.s # 0 /\ current_price.v # 0
         THEN [na |-> FALSE,
               tenths |-> PercentTenths(FSub(price_target, Double(current_price)),
                                        Double(current_price))]
         ELSE [na |-> TRUE, tenths |-> 0]]

\* What the adjustment reads of dcf_analysis.
DcfPart(dcf_analysis) ==
    [status |-> dcf_analysis.status, assessment |-> dcf_analysis.assessment,
     fair_value |-> dcf_analysis.fair_value]

\* The reported targets of the snapshots, computed once.
TargetInputs ==
    {<<p, f, DcfPart(DcfValuations[<<e, p, m>>])>> :
        p \in Read(PriceValues, Num(0)) \ {None}, f \in {125, 115, 85, 95, 105},
        e \in Read(EpsValues, Num(0)), m \in Read(MarketCapValues, Num(0))}

Targets ==
    [key \in TargetInputs |->
        Reported(key[1], FinalTarget(key[1], key[2], key[3]))]
    @@ <<>>

TargetOf(key) ==
    Lookup(Targets, key, Reported(key[1], FinalTarget(key[1], key[2], key[3])))

\* _calculate_price_performance divides by (high_52w - low_52w) once all three
\* inputs are truthy: ZeroDivisionError when the two are equal.
PricePerformanceRaises(sd) ==
    LET current_price == Get(sd, "current_price", Num(0))
        high_52w == Get(sd, "52w_high", Num(0))
        low_52w == Get(sd, "52w_low", Num(0))
    IN  Truthy(current_price) /\ Truthy(high_52w) /\ Truthy(low_52w)
        /\ high_52w.v = low_52w.v

\* _assess_risk_level compares beta, pe_ratio and market_cap with numbers
\* without a guard: TypeError on None.
RiskLevelRaises(sd) ==
    \/ IsNone(Get(sd, "beta", Num(0)))
    \/ IsNone(Get(sd, "pe_ratio", Num(0)))
    \/ IsNone(Get(sd, "market_cap", Num(0)))

_assess_risk_level(sd) ==
    LET beta == Get(sd, "beta", Num(0)).v
        pe_ratio == Get(sd, "pe_ratio", Num(0)).v
        market_cap == Get(sd, "market_cap", Num(0)).v
        risk_factors ==
            (IF beta > Milli(1500) THEN 2 ELSE IF beta > Milli(1200) THEN 1 ELSE 0)
            + (IF pe_ratio > Whole(40) THEN 2
               ELSE IF pe_ratio > Whole(25) THEN 1 ELSE 0)
            + (IF market_cap < Bn(2) THEN 2 ELSE IF market_cap < Bn(10) THEN 1 ELSE 0)
    IN  IF risk_factors >= 4 THEN "HIGH RISK"
        ELSE IF risk_factors >= 2 THEN "MODERATE RISK"
        ELSE "LOW RISK"

\* _identify_catalysts (elif pe_ratio > 30, elif market_cap > 50e9) and
\* _assess_competitive_position (market_cap > 100e9) raise on None as well.
CatalystsRaise(sd) ==
    IsNone(Get(sd, "pe_ratio", Num(0))) \/ IsNone(Get(sd, "market_cap", Num(0)))

CompetitivePositionRaises(sd) == IsNone(Get(sd, "market_cap", Num(0)))

\* _rule_based_analysis raises when the P/E band multiplies a None price or
\* when one of the helpers that fill the returned dict raises.
RuleBasedRaises(sd) ==
    \/ IsNone(Get(sd, "current_price", Num(0)))
    \/ PricePerformanceRaises(sd)
    \/ RiskLevelRaises(sd)
    \/ CatalystsRaise(sd)
    \/ CompetitivePositionRaises(sd)

Raised == [raised |-> TRUE]

\* _rule_based_analysis.  upside_potential is in tenths of a percent, or "N/A".
_rule_based_analysis(sd) ==
    IF RuleBasedRaises(sd) THEN Raised
    ELSE
    LET current_price == Get(sd, "current_price", Num(0))
        band == PeBand(Get(sd, "pe_ratio", Num(0)))
        Analysis(valuation_analysis, final_recommendation, reported) ==
            [raised |-> FALSE,
             current_price |-> current_price.v,
             target_price |-> reported.target_price,
             recommendation |-> final_recommendation,
             analysis_type |-> "Rule-based Fundamental Analysis (Free)",
             analyst_rating |-> final_recommendation,
             upside_potential |-> reported.upside_potential,
             risk_level |-> _assess_risk_level(sd),
             valuation_analysis |-> valuation_analysis]
        Adjusted(valuation_analysis, dcf_analysis) ==
            Analysis(valuation_analysis,
                     IF dcf_analysis.status = "Completed"
                     THEN AdjustRecommendation(band.basic_recommendation,
                                               dcf_analysis.assessment)
                     ELSE band.basic_recommendation,
                     TargetOf(<<current_price, band.factor, DcfPart(dcf_analysis)>>))
        WithValuation(valuation_analysis) ==
            Adjusted(valuation_analysis, valuation_analysis.dcf_analysis)
    IN  WithValuation(_perform_basic_valuation(sd))

----------------------------------------------------------------------------
(* FreeStockAnalyzer: analyze_stock_free                                   *)

\* A variant of the P/E risk test that includes the threshold itself.
HighPeRiskInclusive(pe_ratio) == Truthy(pe_ratio) /\ pe_ratio.v >= Whole(40)

\* if pe_ratio and pe_ratio > 40 (line 381)
HighPeRisk(pe_ratio) == Truthy(pe_ratio) /\ pe_ratio.v > Whole(40)

\* (current_price / high_52w) > 0.95, for truthy numbers
NearHigh(current_price, high_52w) ==
    FGt(FDiv(Double(current_price), Double(high_52w)), Lit095)

\* The test on the prices and 52-week highs of the snapshots, computed once.
NearHighInputs ==
    (Read(PriceValues, Num(0)) \ {None, Num(0)})
        \X (Read({x.high_52w : x \in AuxProfiles}, Num(0)) \ {None, Num(0)})

NearHighs == [key \in NearHighInputs |-> NearHigh(key[1], key[2])]
    @@ <<>>

NearHighOf(key) == Lookup(NearHighs, key, NearHigh(key[1], key[2]))

\* _identify_financial_risks: the list, in the order the code appends.
_identify_financial_risks(sd) ==
    LET pe_ratio == Get(sd, "pe_ratio", Num(0))
        beta == Get(sd, "beta", Num(0))
        dividend_yield == Get(sd, "dividend_yield", Num(0))
        market_cap == Get(sd, "market_cap", Num(0))
        current_price == Get(sd, "current_price", Num(0))
        high_52w == Get(sd, "52w_high", Num(0))
        risks ==
            (IF HighPeRisk(pe_ratio)
             THEN <<"High P/E ratio suggests elevated valuation risk">> ELSE <<>>)
            \o (IF Truthy(beta) /\ beta.v > Milli(1500)
                THEN <<"High beta indicates above-average market sensitivity">>
                ELSE <<>>)
            \o (IF ~Truthy(dividend_yield) \/ dividend_yield.v < Milli(10)
                THEN <<"Low/no dividend yield - not suitable for income-focused portfolios">>
                ELSE <<>>)
            \o (IF Truthy(market_cap) /\ market_cap.v < Bn(2)
                THEN <<"Small market cap increases liquidity and volatility risks">>
                ELSE <<>>)
            \o (IF Truthy(current_price) /\ Truthy(high_52w)
                   /\ NearHighOf(<<current_price, high_52w>>)
                THEN <<"Trading near 52-week high - limited upside potential">>
                ELSE <<>>)
    IN  IF risks = <<>>
        THEN <<"General market volatility", "Sector-specific risks",
               "Economic cycle sensitivity">>
        ELSE risks

\* _generate_detailed_analysis_text formats dividend_yield and the 52-week
\* range with a float format: TypeError on None.  (The other values it
\* formats are never None once _rule_based_analysis has returned.)
DetailedTextRaises(sd) ==
    \/ IsNone(Get(sd, "dividend_yield", Num(0)))
    \/ IsNone(Get(sd, "52w_low", Num(0)))
    \/ IsNone(Get(sd, "52w_high", Num(0)))

\* A variant of the handler's last step that lets the exception go on to the
\* caller.
_fallback_analysis_reraise(sd) == Raised

\* _fallback_analysis
_fallback_analysis(sd) ==
    [symbol |-> sd.symbol,
     company_name |-> DictGet(sd, "company_name", ""),
     analysis_type |-> "Basic (Free)",
     recommendation |-> "HOLD",
     note |-> "Limited analysis available. Consider premium features for detailed insights."]

\* analyze_stock_free: the try block, and the handler that returns the
\* fallback record.  The narrative strings are not modelled beyond the
\* exceptions their formatting raises.
analyze_stock_free(sd) ==
    LET Result(analysis) ==
            IF analysis.raised \/ DetailedTextRaises(sd)
            THEN _fallback_analysis(sd)
            ELSE [symbol |-> sd.symbol,
                  analysis_type |-> analysis.analysis_type,
                  current_price |-> analysis.current_price,
                  target_price |-> analysis.target_price,
                  upside_potential |-> analysis.upside_potential,
                  risk_level |-> analysis.risk_level,
                  valuation_analysis |-> analysis.valuation_analysis,
                  valuation |-> analysis.valuation_analysis,
                  risks |-> _identify_financial_risks(sd),
                  recommendation |-> analysis.recommendation,
                  dcf_value |-> analysis.valuation_analysis.dcf_analysis.fair_value,
                  wacc |-> DictGet(analysis.valuation_analysis.wacc_analysis,
                                   "wacc_percentage", 0)]
    IN  Result(_rule_based_analysis(sd))

----------------------------------------------------------------------------
(* StockAnalyzer: the premium analyzer                                     *)

\* setup_logger() on the logger "utils.logger" every analyzer shares, run
\* with no other run in between: a logger that has a handler is returned as
\* it is (line 32); a logger without one gets a console handler (line 48)
\* and a file handler (line 63).  The log directory is writable.
setup_logger(handlers) ==
    IF handlers # <<>> THEN handlers
    ELSE Append(Append(handlers, "StreamHandler"), "FileHandler")

\* StockAnalyzer.__init__: ValueError without an API key; an error of the
\* OpenAI client constructor propagates as well.
StockAnalyzerInit(key, client_ok) ==
    IF key = "" \/ ~client_ok THEN Raised ELSE [raised |-> FALSE, api_key |-> key]

\* A variant whose handler returns a record without values instead of
\* re-raising.
fetch_stock_data_swallow(symbol, upstream) ==
    [raised |-> FALSE,
     data |-> IF upstream.raised
              THEN [symbol |-> symbol, current_price |-> None, market_cap |-> None,
                    pe_ratio |-> None, eps |-> None, beta |-> None]
              ELSE [symbol |-> symbol,
                    current_price |->
                        IF upstream.closes = <<>> THEN None
                        ELSE upstream.closes[Len(upstream.closes)],
                    market_cap |-> Get(upstream.info, "market_cap", None),
                    pe_ratio |-> Get(upstream.info, "pe_ratio", None),
                    eps |-> Get(upstream.info, "eps", None),
                    beta |-> Get(upstream.info, "beta", None)]]

\* fetch_stock_data: the handler logs and re-raises whatever the market-data
\* service raised; otherwise the compiled record, in which current_price is
\* the last Close of ticker.history(), None for an empty history (line 79),
\* and info.get(key) puts None for a missing key.
fetch_stock_data(symbol, upstream) ==
    IF upstream.raised THEN Raised
    ELSE [raised |-> FALSE,
          data |-> [symbol |-> symbol,
                    current_price |->
                        IF upstream.closes = <<>> THEN None
                        ELSE upstream.closes[Len(upstream.closes)],
                    market_cap |-> Get(upstream.info, "market_cap", None),
                    pe_ratio |-> Get(upstream.info, "pe_ratio", None),
                    eps |-> Get(upstream.info, "eps", None),
                    beta |-> Get(upstream.info, "beta", None)]]

\* extract(pattern, text, default), lines 453-455: re.search returns the first
\* place of the text where the quoted key, a colon and a value of the
\* pattern's form follow one another, and the value's text is what comes
\* back; the default comes back when there is no such place.  The text is
\* held as the sequence of its '"key": value' fragments: the key in lower
\* case (the search ignores case), the form of the value and its text
\* without blanks around it.
RECURSIVE Extract(_, _, _, _)
Extract(fragments, key, forms, default) ==
    IF fragments = <<>> THEN default
    ELSE IF Head(fragments).key = key /\ Head(fragments).form \in forms
    THEN Head(fragments).value
    ELSE Extract(Tail(fragments), key, forms, default)

\* The record built from a reply that is not JSON (lines 456-473).  A
\* recommendation is a quoted text that is not empty ("quoted"); a
\* target_price starts with digits or dots ("number"); an upside_potential
\* may start with a minus sign as well ("negative").
ExtractedReply(fragments) ==
    [analysis |-> "raw reply text",
     recommendation |-> Extract(fragments, "recommendation", {"quoted"}, "N/A"),
     target_price |-> Extract(fragments, "target_price", {"number"}, "N/A"),
     upside_potential |->
         Extract(fragments, "upside_potential", {"number", "negative"}, "N/A")]

\* The record _get_comprehensive_ai_analysis returns from its handler.
AiUnavailable ==
    [analysis |-> "AI analysis temporarily unavailable.",
     recommendation |-> "HOLD", target_price |-> 0, upside_potential |-> 0]

\* A variant of the request that is sent a second time after a failure.
_get_comprehensive_ai_analysis_retry(sd, service) ==
    IF IsNone(sd.current_price)
    THEN [requests |-> 0, is_dict |-> TRUE, result |-> AiUnavailable]
    ELSE IF service.outcome = "fail"
    THEN [requests |-> 2, is_dict |-> TRUE, result |-> AiUnavailable]
    ELSE IF service.outcome = "json"
    THEN [requests |-> 1, is_dict |-> TRUE, result |-> service.reply]
    ELSE IF service.outcome = "json_other"
    THEN [requests |-> 1, is_dict |-> FALSE, result |-> AiUnavailable]
    ELSE [requests |-> 1, is_dict |-> TRUE,
          result |-> ExtractedReply(service.fragments)]

\* _get_comprehensive_ai_analysis.  Formatting a None current_price raises
\* before the request is sent; a failed request is caught by the same
\* handler.  A reply that parses as JSON is returned as parsed, object or not
\* ("json_other": a list, a string, a number); a reply that is not JSON goes
\* through the pattern extraction, which returns the fields it finds in the
\* text as texts and "N/A" for a field it does not find.
_get_comprehensive_ai_analysis(sd, service) ==
    IF IsNone(sd.current_price)
    THEN [requests |-> 0, is_dict |-> TRUE, result |-> AiUnavailable]
    ELSE IF service.outcome = "fail"
    THEN [requests |-> 1, is_dict |-> TRUE, result |-> AiUnavailable]
    ELSE IF service.outcome = "json"
    THEN [requests |-> 1, is_dict |-> TRUE, result |-> service.reply]
    ELSE IF service.outcome = "json_other"
    THEN [requests |-> 1, is_dict |-> FALSE, result |-> AiUnavailable]
    ELSE [requests |-> 1, is_dict |-> TRUE,
          result |-> ExtractedReply(service.fragments)]

\* analyze_stock.  The steps it calls have their own handlers; what reaches
\* its own handler (log and re-raise) is the .get on a parsed reply that is
\* not an object.  A field the reply does not hold takes the default of its
\* .get (lines 192 and 208-210).
analyze_stock(sd, service) ==
    LET ai == _get_comprehensive_ai_analysis(sd, service)
    IN  IF ~ai.is_dict THEN [raised |-> TRUE, requests |-> ai.requests]
        ELSE [raised |-> FALSE,
              requests |-> ai.requests,
              result |-> [symbol |-> sd.symbol,
                          ai_analysis |->
                              DictGet(ai.result, "analysis",
                                      "Analysis unavailable"),
                          recommendation |->
                              DictGet(ai.result, "recommendation", "HOLD"),
                          target_price |->
                              DictGet(ai.result, "target_price",
                                      sd.current_price),
                          upside_potential |->
                              DictGet(ai.result, "upside_potential", "0%")]]

----------------------------------------------------------------------------
(* The app: one action is one widget event and the script run it triggers  *)

NoResult == [none |-> TRUE]

Unset == "(unset)"

FreeMode == "Free Analysis (No API Required)"
PremiumMode == "Premium Analysis (with OpenAI GPT)"

\* The upper-case letter of each lower-case ASCII letter.
UpperCase ==
    [a |-> "A", b |-> "B", c |-> "C", d |-> "D", e |-> "E", f |-> "F",
     g |-> "G", h |-> "H", i |-> "I", j |-> "J", k |-> "K", l |-> "L",
     m |-> "M", n |-> "N", o |-> "O", p |-> "P", q |-> "Q", r |-> "R",
     s |-> "S", t |-> "T", u |-> "U", v |-> "V", w |-> "W", x |-> "X",
     y |-> "Y", z |-> "Z"]

\* st.text_input(...).upper(), line 408: every lower-case letter of the text
\* becomes its upper-case letter, every other character stays.  A text is a
\* sequence of characters; the texts of the model hold ASCII characters.
RECURSIVE Upper(_)
Upper(text) ==
    IF text = <<>> THEN <<>>
    ELSE <<IF Head(text) \in DOMAIN UpperCase THEN UpperCase[Head(text)]
           ELSE Head(text)>> \o Upper(Tail(text))

SymbolTexts ==
    {<<>>, <<"A", "A", "A">>, <<"a", "a", "a">>, <<"A", "a", "a">>,
     <<"B", "B", "B">>}

ApiKeys == {"", "sk-test"}

\* What the market-data service may hold for a symbol (ticker.info, under the
\* keys the snapshot uses).
Infos ==
    {Snapshot(<<>>, Num(Whole(100)), Num(Whole(10)), Num(Whole(5)), Num(Bn(5)),
              Aux(Num(Whole(1)), Num(0), Absent, Absent, Absent)),
     Snapshot(<<>>, Num(Whole(50)), Num(Whole(40)), Absent, Num(Bn(1)),
              Aux(Absent, Absent, Absent, Absent, Absent)),
     Snapshot(<<>>, Num(Whole(100)), Num(Whole(20)), Num(Whole(10)), Num(Bn(300)),
              Aux(Num(Milli(1300)), None, Num(Whole(2)), Num(Whole(120)),
                  Num(Whole(80)))),
     Snapshot(<<>>, None, Num(Whole(20)), Num(Whole(5)), Num(Bn(30)),
              Aux(Absent, Absent, Absent, Absent, Absent))}

\* yf.Ticker(symbol).info and .history(): a request raises, or the service
\* returns an info and the Close column of a history.  The two come from
\* separate requests: the history may be empty, or end at a price other than
\* the info's.  The infos with an eps of 5 come with every history, the
\* others with the history that ends at their price.
Upstreams ==
    {Raised}
    \cup {u \in {[raised |-> FALSE, info |-> i, closes |-> h] :
                    i \in Infos,
                    h \in {<<>>, <<Num(Whole(50))>>,
                           <<Num(Whole(99)), Num(Whole(100))>>}} :
             \/ u.info.eps = Num(Whole(5))
             \/ u.closes # <<>>
                /\ u.closes[Len(u.closes)] = u.info.current_price}

\* The generative-text service: the request fails, or it replies.
Services ==
    {[outcome |-> "fail"], [outcome |-> "json_other"],
     [outcome |-> "text", fragments |-> <<>>],
     [outcome |-> "text",
      fragments |->
          <<[key |-> "recommendation", form |-> "quoted", value |-> "BUY"],
            [key |-> "target_price", form |-> "negative", value |-> "-5"],
            [key |-> "target_price", form |-> "number", value |-> "120.5"],
            [key |-> "upside_potential", form |-> "negative", value |-> "-3.5"]>>],
     [outcome |-> "text",
      fragments |->
          <<[key |-> "analysis", form |-> "quoted", value |-> "x"],
            [key |-> "recommendation", form |-> "quoted", value |-> "SELL"],
            [key |-> "target_price", form |-> "number", value |-> "80"]>>],
     [outcome |-> "json",
      reply |-> [analysis |-> "DCF Analysis: ...", recommendation |-> "BUY",
                 target_price |-> 120, upside_potential |-> 20]],
     [outcome |-> "json",
      reply |-> [analysis |-> "DCF Analysis: ...", recommendation |-> "SELL",
                 target_price |-> 80, upside_potential |-> -20]],
     [outcome |-> "json", reply |-> [recommendation |-> "BUY"]]}

\* The metric cards (lines 497-555) compare and format current_price,
\* market_cap, pe_ratio, beta and the 52-week range without a guard; None
\* raises into the handler of the main block, before the button is drawn.
DisplayRaises(info) ==
    \/ IsNone(Get(info, "current_price", Num(0)))
    \/ IsNone(Get(info, "market_cap", Num(0)))
    \/ IsNone(Get(info, "pe_ratio", Num(0)))
    \/ IsNone(Get(info, "beta", Num(Whole(1))))
    \/ IsNone(Get(info, "52w_high", Num(0)))
    \/ IsNone(Get(info, "52w_low", Num(0)))

\* stock_data as the app prepares it (lines 610-623); the infos carry no
\* longName, so company_name is the symbol.
BuildStockData(symbol, info) ==
    [symbol |-> symbol,
     company_name |-> symbol,
     current_price |-> Get(info, "current_price", Num(0)),
     pe_ratio |-> Get(info, "pe_ratio", Num(0)),
     eps |-> Get(info, "eps", Num(0)),
     market_cap |-> Get(info, "market_cap", Num(0)),
     beta |-> Get(info, "beta", Num(Whole(1))),
     dividend_yield |-> Get(info, "dividend_yield", Num(0)),
     pb_ratio |-> Get(info, "pb_ratio", Num(0))]
    @@ ("52w_high" :> Get(info, "52w_high", Num(0)))
    @@ ("52w_low" :> Get(info, "52w_low", Num(0)))

\* A variant of the premium branch whose handler leaves the label "Premium"
\* on the free result.
PremiumBranchKeepsLabel(symbol, key, sd, client_ok, upstream, service) ==
    LET analyzer == StockAnalyzerInit(key, client_ok)
        fetched == fetch_stock_data(symbol, upstream)
        analysed == analyze_stock(fetched.data, service)
        raised_in ==
            IF analyzer.raised THEN "__init__"
            ELSE IF fetched.raised THEN "fetch_stock_data"
            ELSE IF analysed.raised THEN "analyze_stock"
            ELSE "none"
    IN  [raised_in |-> raised_in,
         market_data_calls |-> IF analyzer.raised THEN 0 ELSE 1,
         generative_calls |->
             IF analyzer.raised \/ fetched.raised THEN 0 ELSE analysed.requests,
         service_failed |->
             ~analyzer.raised /\ ~fetched.raised /\ analysed.requests = 1
             /\ service.outcome = "fail",
         result |-> IF raised_in = "none" THEN analysed.result
                    ELSE analyze_stock_free(sd),
         analysis_type |-> "Premium"]

\* The premium branch of the button handler (lines 631-644): the try block
\* over construction, fetch and analysis, and its handler, which runs the
\* free analysis on the app's own stock_data.
PremiumBranch(symbol, key, sd, client_ok, upstream, service) ==
    LET analyzer == StockAnalyzerInit(key, client_ok)
        fetched == fetch_stock_data(symbol, upstream)
        analysed == analyze_stock(fetched.data, service)
        raised_in ==
            IF analyzer.raised THEN "__init__"
            ELSE IF fetched.raised THEN "fetch_stock_data"
            ELSE IF analysed.raised THEN "analyze_stock"
            ELSE "none"
    IN  [raised_in |-> raised_in,
         market_data_calls |-> IF analyzer.raised THEN 0 ELSE 1,
         generative_calls |->
             IF analyzer.raised \/ fetched.raised THEN 0 ELSE analysed.requests,
         service_failed |->
             ~analyzer.raised /\ ~fetched.raised /\ analysed.requests = 1
             /\ service.outcome = "fail",
         result |-> IF raised_in = "none" THEN analysed.result
                    ELSE analyze_stock_free(sd),
         analysis_type |-> IF raised_in = "none" THEN "Premium"
                           ELSE "Free (Fallback)"]

\* The record of what the last event did.  A finished run (pc "done") has
\* drawn the button "Generate Comprehensive Analysis" (line 607) unless its
\* main block raised before, and the PowerPoint section, with its buttons
\* "New Analysis" and "GENERATE POWERPOINT PRESENTATION", if it reached line
\* 733 with a completed analysis in the session: the run that misses the API
\* key returns before (line 647), every other run reaches it with the session
\* as the run leaves it.  info and upstream are what a run that waits for an
\* answer holds in its local variables.
Run(event, symbol, market_calls, generative_calls, raised_in, failed, error) ==
    [event |-> event, symbol |-> symbol,
     market_data_calls |-> market_calls,
     generative_calls |-> generative_calls,
     premium_raised_in |-> raised_in, service_failed |-> failed,
     error |-> error, generator |-> "none",
     analyze_button |-> symbol # <<>> /\ error # "Error analyzing",
     ppt_section |-> /\ error # "API key required"
                     /\ analysis_complete'
                     /\ analysis_result' # NoResult,
     pc |-> "done", info |-> NoResult, upstream |-> NoResult]

\* The run is at a wait: it has not reached the PowerPoint section.
Waiting(run, pc) == [run EXCEPT !.pc = pc, !.ppt_section = FALSE]

\* The main block of a run (lines 476-606) raises into its handler (lines
\* 729-730): the market-data request fails or a metric card formats None.
PageRaises(symbol, upstream) ==
    /\ symbol # <<>>
    /\ IF upstream.raised THEN TRUE ELSE DisplayRaises(upstream.info)

\* A run that only redraws the page: one fetch if a symbol is entered, and
\* the error of the main block's handler if the block raises.
Redraw(event, symbol, upstream) ==
    Run(event, symbol, IF symbol = <<>> THEN 0 ELSE 1, 0, "none", FALSE,
        IF PageRaises(symbol, upstream) THEN "Error analyzing" ELSE "none")

\* current_symbol after the handler of "New Analysis" (line 744): Python's
\* None, the text of no symbol.
NoSymbol == <<"None">>

\* A variant of the check that takes the new symbol and keeps what the
\* session holds.
SymbolCheckKeepsSession(symbol) ==
    /\ current_symbol' = symbol
    /\ UNCHANGED <<analysis_complete, analysis_result, stock_info, analysis_type>>

\* Lines 410-415: a symbol other than current_symbol clears the session.
SymbolCheck(symbol) ==
    IF current_symbol # symbol
    THEN /\ analysis_complete' = FALSE
         /\ analysis_result' = NoResult
         /\ stock_info' = NoResult
         /\ current_symbol' = symbol
         /\ UNCHANGED analysis_type
    ELSE UNCHANGED sessionVars

\* The user types another text into the symbol box: the script runs again,
\* reads the text in upper case (lines 403-408) and compares it with
\* current_symbol (lines 410-415).  A text that differs from the previous
\* one only in the case of its letters is a run as well, and the same symbol.
EnterSymbol(text, upstream) ==
    /\ last_run.pc = "done"
    /\ text # symbol_text
    /\ symbol_text' = text
    /\ stock_symbol' = Upper(text)
    /\ SymbolCheck(Upper(text))
    /\ last_run' = Redraw("symbol", Upper(text), upstream)
    /\ UNCHANGED <<analysis_mode, api_key, calcVars, processVars, runVars>>

\* The user picks the other analysis mode.  The key box exists only in
\* premium mode and starts empty.
SelectMode(mode, upstream) ==
    /\ last_run.pc = "done"
    /\ mode # analysis_mode
    /\ analysis_mode' = mode
    /\ api_key' = ""
    /\ SymbolCheck(stock_symbol)
    /\ last_run' = Redraw("mode", stock_symbol, upstream)
    /\ UNCHANGED <<symbol_text, stock_symbol, calcVars, processVars, runVars>>

\* The user types into the key box.
EnterApiKey(key, upstream) ==
    /\ last_run.pc = "done"
    /\ analysis_mode = PremiumMode
    /\ key # api_key
    /\ api_key' = key
    /\ SymbolCheck(stock_symbol)
    /\ last_run' = Redraw("key", stock_symbol, upstream)
    /\ UNCHANGED <<analysis_mode, symbol_text, stock_symbol, calcVars, processVars,
                   runVars>>

\* The user moves one of the sliders of the sidebar (lines 425-453): the
\* script runs again; no line reads the value.
MoveSlider(upstream) ==
    /\ last_run.pc = "done"
    /\ SymbolCheck(stock_symbol)
    /\ last_run' = Redraw("slider", stock_symbol, upstream)
    /\ UNCHANGED <<widgetVars, calcVars, processVars, runVars>>

\* The user picks a presentation style in the PowerPoint section (lines
\* 758-764): the script runs again; no line reads the value.
SelectPptStyle(upstream) ==
    /\ last_run.pc = "done"
    /\ last_run.ppt_section
    /\ SymbolCheck(stock_symbol)
    /\ last_run' = Redraw("ppt_style", stock_symbol, upstream)
    /\ UNCHANGED <<widgetVars, calcVars, processVars, runVars>>

\* The new session state of lines 649-654.
Store(result, info, type) ==
    /\ analysis_complete' = TRUE
    /\ analysis_result' = result
    /\ stock_info' = info
    /\ current_symbol' = stock_symbol
    /\ analysis_type' = type

\* The premium branch's outcome p taken into the session and the process
\* (lines 631-654): the result and its label, what the run did, the logger's
\* handlers and the key left in the environment.
StorePremium(p, info) ==
    /\ Store(p.result, info, p.analysis_type)
    /\ last_run' = Run("analyze", stock_symbol,
                       1 + p.market_data_calls, p.generative_calls,
                       p.raised_in, p.service_failed,
                       IF p.raised_in = "none" THEN "none"
                       ELSE "Premium analysis failed")
    /\ logger_handlers' = setup_logger(logger_handlers)
    /\ openai_api_key' = api_key

\* The run with the button pressed reaches the premium branch (line 632).
ReachesPremiumBranch(upstream) ==
    /\ ~upstream.raised
    /\ ~DisplayRaises(upstream.info)
    /\ analysis_mode = PremiumMode
    /\ api_key # ""

\* "Generate Comprehensive Analysis": the script run with the button pressed,
\* on a page that shows the button.  The free analysis and every failure
\* before the premium analyzer exists end the run at once.  With the
\* analyzer constructed (line 634: the logger has its handlers, the module
\* attribute holds the key) the run sends the market-data request of
\* fetch_stock_data (line 636) and waits for the answer, with nothing stored
\* in the session yet.  Without a premium branch no client is constructed.
ClickAnalyze(upstream, client_ok) ==
    /\ last_run.pc = "done"
    /\ last_run.analyze_button
    /\ stock_symbol # <<>>
    /\ ReachesPremiumBranch(upstream) \/ ~client_ok
    /\ IF upstream.raised
       THEN /\ SymbolCheck(stock_symbol)
            /\ last_run' = Run("analyze", stock_symbol, 1, 0, "none", FALSE,
                               "Error analyzing")
            /\ UNCHANGED processVars
       ELSE IF DisplayRaises(upstream.info)
       THEN /\ SymbolCheck(stock_symbol)
            /\ last_run' = Run("analyze", stock_symbol, 1, 0, "none", FALSE,
                               "Error analyzing")
            /\ UNCHANGED processVars
       ELSE LET sd == BuildStockData(stock_symbol, upstream.info)
            IN  IF analysis_mode = FreeMode
                THEN /\ Store(analyze_stock_free(sd), upstream.info, "Free")
                     /\ last_run' = Run("analyze", stock_symbol, 1, 0, "none",
                                        FALSE, "none")
                     /\ logger_handlers' = setup_logger(logger_handlers)
                     /\ UNCHANGED openai_api_key
                ELSE IF api_key = ""
                THEN /\ SymbolCheck(stock_symbol)
                     /\ last_run' = Run("analyze", stock_symbol, 1, 0, "none",
                                        FALSE, "API key required")
                     /\ UNCHANGED processVars
                ELSE IF ~client_ok
                THEN StorePremium(PremiumBranch(stock_symbol, api_key, sd, FALSE,
                                                Raised, [outcome |-> "fail"]),
                                  upstream.info)
                ELSE /\ SymbolCheck(stock_symbol)
                     /\ logger_handlers' = setup_logger(logger_handlers)
                     /\ openai_api_key' = api_key
                     /\ last_run' =
                            [Waiting(Run("analyze", stock_symbol, 2, 0, "none",
                                         FALSE, "none"), "fetch_stock_data")
                                EXCEPT !.info = upstream.info]
    /\ UNCHANGED <<widgetVars, calcVars, runVars>>

\* The premium branch once fetch_stock_data has its answer: p is its outcome
\* if the generative service fails.  A raised fetch, or market data for
\* which analyze_stock sends no request, ends the run; otherwise the run
\* sends the completion request (line 637) and waits for the reply.
AfterPremiumFetch(p, upstream2) ==
    IF p.generative_calls = 0 THEN StorePremium(p, last_run.info)
    ELSE /\ last_run' = [last_run EXCEPT !.pc = "analyze_stock",
                                         !.upstream = upstream2,
                                         !.generative_calls = 1]
         /\ UNCHANGED <<sessionVars, processVars>>

\* The market-data service answers the request of fetch_stock_data (line
\* 636).
ReturnFetchStockData(upstream2) ==
    /\ last_run.pc = "fetch_stock_data"
    /\ AfterPremiumFetch(
           PremiumBranch(stock_symbol, api_key,
                         BuildStockData(stock_symbol, last_run.info), TRUE,
                         upstream2, [outcome |-> "fail"]),
           upstream2)
    /\ UNCHANGED <<widgetVars, calcVars, runVars>>

\* The generative service answers the request of analyze_stock (line 637):
\* the run stores its result (lines 649-654) and draws the rest of the page.
ReturnAnalyzeStock(service) ==
    /\ last_run.pc = "analyze_stock"
    /\ StorePremium(
           PremiumBranch(stock_symbol, api_key,
                         BuildStockData(stock_symbol, last_run.info), TRUE,
                         last_run.upstream, service),
           last_run.info)
    /\ UNCHANGED <<widgetVars, calcVars, runVars>>

\* "New Analysis" (lines 740-745): the run draws the page down to the button,
\* the handler clears the session, with current_symbol None, and calls
\* st.rerun(): the script ends and a second run is due.
ClickNewAnalysis(upstream) ==
    /\ last_run.pc = "done"
    /\ last_run.ppt_section
    /\ analysis_complete
    /\ analysis_result # NoResult
    /\ analysis_complete' = FALSE
    /\ analysis_result' = NoResult
    /\ stock_info' = NoResult
    /\ current_symbol' = NoSymbol
    /\ last_run' = Waiting(Redraw("new", stock_symbol, upstream), "rerun")
    /\ UNCHANGED <<analysis_type, widgetVars, calcVars, processVars, runVars>>

\* What the event "New Analysis" did, once its second run has drawn the
\* page: the requests and the errors of both runs, and the page of the
\* second.
AfterRerun(first, second) ==
    [second EXCEPT
        !.market_data_calls = first.market_data_calls + @,
        !.error = IF first.error = "Error analyzing" THEN first.error ELSE @]

\* The run st.rerun() asked for: it finds current_symbol (None) different
\* from the symbol in the box (lines 410-415) and redraws the page.
Rerun(upstream) ==
    /\ last_run.pc = "rerun"
    /\ SymbolCheck(stock_symbol)
    /\ last_run' = AfterRerun(last_run, Redraw("new", stock_symbol, upstream))
    /\ UNCHANGED <<widgetVars, calcVars, processVars, runVars>>

\* A variant of the handler that chooses the generator by the mode selected
\* in the sidebar.
ClickGeneratePptByMode(upstream) ==
    /\ last_run.pc = "done"
    /\ last_run.ppt_section
    /\ analysis_complete
    /\ analysis_result # NoResult
    /\ UNCHANGED <<sessionVars, widgetVars, calcVars, processVars, runVars>>
    /\ last_run' =
           [Redraw("ppt", stock_symbol, upstream) EXCEPT
               !.generator = IF analysis_mode = PremiumMode
                             THEN "create_presentation_ai"
                             ELSE "create_presentation_free"]

\* "GENERATE POWERPOINT PRESENTATION" (lines 770-789): the run redraws the
\* main block, then the handler of the button calls the generator.
ClickGeneratePpt(upstream) ==
    /\ last_run.pc = "done"
    /\ last_run.ppt_section
    /\ analysis_complete
    /\ analysis_result # NoResult
    /\ UNCHANGED <<sessionVars, widgetVars, calcVars, processVars, runVars>>
    /\ last_run' =
           [Redraw("ppt", stock_symbol, upstream) EXCEPT
               !.generator = IF analysis_type = "Premium"
                             THEN "create_presentation_ai"
                             ELSE "create_presentation_free"]

\* The process before any analyzer was constructed: openai.api_key unset and
\* no handler on the shared logger.
ProcessInit ==
    /\ openai_api_key = Unset
    /\ logger_handlers = <<>>

\* The process variables the runs share.
SharedNames == {"openai.api_key", "logger.handlers"}

RunIds == {1, 2}

\* A run that has not started: no inputs chosen yet, none of the handler's
\* local variables (premium_stock_data, result, analysis_type) assigned and
\* nothing stored in the st.session_state of the run's session.
IdleRun ==
    [pc |-> "idle", mode |-> Unset, key |-> "", stock_data |-> NoResult,
     client_ok |-> TRUE, upstream |-> Raised, service |-> [outcome |-> "fail"],
     fallback |-> FALSE, premium_stock_data |-> NoResult,
     result |-> NoResult, analysis_type |-> Unset,
     session |-> [analysis_complete |-> FALSE, analysis_result |-> NoResult,
                  analysis_type |-> Unset]]

NoAccess ==
    [writers |-> [name \in SharedNames |-> {}],
     readers |-> [name \in SharedNames |-> {}]]

\* No concurrent run is under way.
RunsIdle ==
    /\ runs = [r \in RunIds |-> IdleRun]
    /\ shared_access = NoAccess

\* st.session_state after the first script run (lines 340-348): nothing
\* entered, free mode.
SessionInit ==
    /\ analysis_complete = FALSE
    /\ analysis_result = NoResult
    /\ stock_info = NoResult
    /\ current_symbol = <<>>
    /\ analysis_type = Unset
    /\ analysis_mode = FreeMode
    /\ api_key = ""
    /\ symbol_text = <<>>
    /\ stock_symbol = <<>>
    /\ last_run = [event |-> "start", symbol |-> <<>>, market_data_calls |-> 0,
                   generative_calls |-> 0, premium_raised_in |-> "none",
                   service_failed |-> FALSE, error |-> "none",
                   generator |-> "none", analyze_button |-> FALSE,
                   ppt_section |-> FALSE, pc |-> "done", info |-> NoResult,
                   upstream |-> NoResult]

AppNext ==
    \/ \E text \in SymbolTexts, upstream \in Upstreams :
           EnterSymbol(text, upstream)
    \/ \E mode \in {FreeMode, PremiumMode}, upstream \in Upstreams :
           SelectMode(mode, upstream)
    \/ \E key \in ApiKeys, upstream \in Upstreams : EnterApiKey(key, upstream)
    \/ \E upstream \in Upstreams : MoveSlider(upstream)
    \/ \E upstream \in Upstreams : SelectPptStyle(upstream)
    \/ \E upstream \in Upstreams, client_ok \in BOOLEAN :
           ClickAnalyze(upstream, client_ok)
    \/ \E upstream2 \in Upstreams : ReturnFetchStockData(upstream2)
    \/ \E service \in Services : ReturnAnalyzeStock(service)
    \/ \E upstream \in Upstreams : ClickNewAnalysis(upstream)
    \/ \E upstream \in Upstreams : Rerun(upstream)
    \/ \E upstream \in Upstreams : ClickGeneratePpt(upstream)

\* The app alone; no calculation run takes place.
CalcIdle ==
    /\ stock_data = Snapshot(<<"T", "E", "S", "T">>, Num(0), Absent, Absent, Absent,
                             Aux(Absent, Absent, Absent, Absent, Absent))
    /\ call = "none"
    /\ ret = NoReturn
    /\ args = NoArgs

AppInit == SessionInit /\ CalcIdle /\ ProcessInit /\ RunsIdle

AppSpec == AppInit /\ [][AppNext]_vars

----------------------------------------------------------------------------
(* Calculation runs: one function of FreeStockAnalyzer applied to a        *)
(* snapshot                                                                *)

CalcInit ==
    /\ stock_data \in Snapshots
    /\ call = "none"
    /\ ret = NoReturn
    /\ args = NoArgs

CallAnalyzeStockFree ==
    /\ call = "none"
    /\ call' = "analyze_stock_free"
    /\ ret' = analyze_stock_free(stock_data)
    /\ UNCHANGED <<stock_data, args, appVars, processVars, runVars>>

CallRuleBasedAnalysis ==
    /\ call = "none"
    /\ call' = "_rule_based_analysis"
    /\ ret' = _rule_based_analysis(stock_data)
    /\ UNCHANGED <<stock_data, args, appVars, processVars, runVars>>

CallPerformBasicValuation ==
    /\ call = "none"
    /\ call' = "_perform_basic_valuation"
    /\ ret' = _perform_basic_valuation(stock_data)
    /\ UNCHANGED <<stock_data, args, appVars, processVars, runVars>>

CallCalculateDcfValuation ==
    /\ call = "none"
    /\ call' = "_calculate_dcf_valuation"
    /\ ret' = _calculate_dcf_valuation(stock_data)
    /\ UNCHANGED <<stock_data, args, appVars, processVars, runVars>>

Next ==
    \/ CallAnalyzeStockFree
    \/ CallRuleBasedAnalysis
    \/ CallPerformBasicValuation
    \/ CallCalculateDcfValuation

\* The analyzer of a calculation run was constructed: its constructor has set
\* up the shared logger.
AnalyzerConstructed ==
    /\ openai_api_key = Unset
    /\ logger_handlers = setup_logger(<<>>)

\* A calculation run starts with the app's session untouched.
Init == CalcInit /\ SessionInit /\ AnalyzerConstructed /\ RunsIdle

Spec == Init /\ [][Next]_vars

----------------------------------------------------------------------------
(* Helper runs: one step of a calculator applied to its own arguments      *)

\* Prices and fair-value to price ratios (in hundredths) on, next to and
\* between the thresholds of the five bands.
BandPrices == {Whole(20), Whole(40), Whole(50), Whole(100), Whole(200)}
BandRatios == {80, 84, 85, 86, 90, 94, 95, 96, 100, 104, 105, 106, 110, 114, 115, 116, 120}

\* The band blocks of the DCF calculator and of the comparative calculator,
\* applied to the same fair value and price.
ApplyAssessmentBands ==
    \E current_price \in BandPrices, ratio \in BandRatios :
        /\ call = "none"
        /\ call' = "assessment"
        /\ args' = [helper |-> "assessment",
                    fair_value |-> (current_price \div 100) * ratio,
                    current_price |-> current_price]
        /\ ret' = [dcf_assessment |->
                       DcfAssessment(Dec((current_price \div 100) * ratio),
                                     Dec(current_price)),
                   comparative_assessment |->
                       ComparativeAssessment(Dec((current_price \div 100) * ratio),
                                             Dec(current_price))]
        /\ UNCHANGED <<stock_data, appVars, processVars, runVars>>

\* P/E ratios below, on, between and above the band thresholds, zero, negative,
\* without a value and missing from the snapshot.
PeBandValues ==
    {Absent, None, Num(0), Num(Whole(-5)), Num(Whole(5)), Num(Milli(11900)),
     Num(Whole(12)), Num(Whole(15)), Num(Milli(17900)), Num(Whole(18)),
     Num(Whole(20)), Num(Whole(25)), Num(Milli(25100)), Num(Whole(30)),
     Num(Whole(35)), Num(Milli(35100)), Num(Whole(60))}
PeBandPrices == {0, Milli(12500), Whole(50), Whole(100)}

\* The first pass of _rule_based_analysis: the P/E band and its price target.
ApplyPeBand ==
    \E pe_ratio \in PeBandValues, current_price \in PeBandPrices :
        /\ call = "none"
        /\ call' = "pe_band"
        /\ args' = [helper |-> "pe_band", pe_ratio |-> pe_ratio,
                    current_price |-> current_price]
        /\ ret' = [basic_recommendation |->
                       PeBand(Get([pe_ratio |-> pe_ratio], "pe_ratio", Num(0))).basic_recommendation,
                   price_target |->
                       Flt(BasicTarget(
                               Dec(current_price),
                               PeBand(Get([pe_ratio |-> pe_ratio], "pe_ratio",
                                          Num(0))).factor))]
        /\ UNCHANGED <<stock_data, appVars, processVars, runVars>>

\* Earnings per share, negative and positive, and growth rates in thousandths
\* around those of the tiers.
DcfEpsValues ==
    {Whole(-10), Whole(-1), Milli(-10), Milli(10), Whole(1), Whole(2), Whole(5),
     Milli(5010), Whole(10)}
DcfMarketCaps == {0, Bn(30), Bn(300), Bn(2000)}
DcfGrowthRates == {0, 60, 61, 80, 100, 120, 121, 200}

\* The projection of _calculate_dcf_valuation (lines 696-716) applied to an
\* eps, to a higher eps under the same assumptions, and to the same eps under
\* a higher growth_rate_5y with the other assumptions kept.
ApplyDcfFairValue ==
    \E eps \in DcfEpsValues, eps_higher \in DcfEpsValues,
       market_cap \in DcfMarketCaps, growth_higher \in DcfGrowthRates :
        /\ eps < eps_higher
        /\ TierAssumptions(market_cap).growth_rate_5y < growth_higher
        /\ call = "none"
        /\ call' = "dcf_fair_value"
        /\ args' = [helper |-> "dcf_fair_value", eps |-> eps,
                    eps_higher |-> eps_higher,
                    assumptions |-> TierAssumptions(market_cap),
                    growth_higher |-> growth_higher]
        /\ ret' = [fair_value |->
                       Flt(DcfFairValue(Dec(eps), TierAssumptions(market_cap))),
                   fair_value_higher_eps |->
                       Flt(DcfFairValue(Dec(eps_higher), TierAssumptions(market_cap))),
                   fair_value_higher_growth |->
                       Flt(DcfFairValue(Dec(eps),
                               [TierAssumptions(market_cap) EXCEPT
                                   !.growth_rate_5y = growth_higher]))]
        /\ UNCHANGED <<stock_data, appVars, processVars, runVars>>

HelperNext ==
    \/ ApplyAssessmentBands
    \/ ApplyPeBand
    \/ ApplyDcfFairValue

\* A helper run starts with no snapshot under analysis and the session untouched.
HelperInit == SessionInit /\ CalcIdle /\ ProcessInit /\ RunsIdle

HelperSpec == HelperInit /\ [][HelperNext]_vars

----------------------------------------------------------------------------
(* Concurrent runs: two sessions of one process press the analysis button. *)
(* A step of a run holds at most one access to a variable of the process   *)
(* or one wait for the network; the other run may take steps in between.   *)

RunKeys == {"sk-one", "sk-two"}

\* The stock_data of the two symbols the runs analyse.
RunSnapshots ==
    {BuildStockData(<<"A", "A", "A">>,
         Snapshot(<<>>, Num(Whole(100)), Num(Whole(10)), Num(Whole(5)), Num(Bn(5)),
                  Aux(Num(Whole(1)), Num(0), Absent, Absent, Absent))),
     BuildStockData(<<"B", "B", "B">>,
         Snapshot(<<>>, Num(Whole(50)), Num(Whole(40)), Absent, Num(Bn(1)),
                  Aux(Absent, Absent, Absent, Absent, Absent)))}

RunUpstreams ==
    {Raised,
     [raised |-> FALSE,
      info |-> Snapshot(<<>>, Num(Whole(100)), Num(Whole(10)), Num(Whole(5)),
                        Num(Bn(5)), Aux(Num(Whole(1)), Num(0), Absent, Absent,
                                        Absent)),
      closes |-> <<Num(Whole(99)), Num(Whole(100))>>]}

RunServices ==
    {[outcome |-> "fail"],
     [outcome |-> "json",
      reply |-> [analysis |-> "DCF Analysis: ...", recommendation |-> "BUY",
                 target_price |-> 120, upside_potential |-> 20]]}

\* The run records that it read or wrote a process variable.
Reads(r, name) ==
    [shared_access EXCEPT !.readers[name] = @ \cup {r}]
Writes(r, name) ==
    [shared_access EXCEPT !.writers[name] = @ \cup {r}]

\* The button handler starts in free mode (line 627).
BeginFreeRun(r) ==
    \E sd \in RunSnapshots :
        /\ runs[r].pc = "idle"
        /\ runs' = [runs EXCEPT ![r] =
               [IdleRun EXCEPT !.pc = "setup_logger", !.mode = FreeMode,
                               !.stock_data = sd]]
        /\ UNCHANGED <<calcVars, appVars, processVars, shared_access>>

\* The button handler starts in premium mode with a key (lines 631-633).
\* An answer the run never asks for (the market data after a failed client
\* construction, the reply after a failed fetch) is the failure.
BeginPremiumRun(r) ==
    \E sd \in RunSnapshots, key \in RunKeys, client_ok \in BOOLEAN,
       upstream \in RunUpstreams, service \in RunServices :
        /\ runs[r].pc = "idle"
        /\ client_ok \/ upstream.raised
        /\ ~upstream.raised \/ service.outcome = "fail"
        /\ runs' = [runs EXCEPT ![r] =
               [IdleRun EXCEPT !.pc = "setup_logger", !.mode = PremiumMode,
                               !.stock_data = sd, !.key = key,
                               !.client_ok = client_ok, !.upstream = upstream,
                               !.service = service]]
        /\ UNCHANGED <<calcVars, appVars, processVars, shared_access>>

\* Where a run goes once its analyzer has its logger: the free analysis, or
\* the rest of StockAnalyzer.__init__.
AfterLogger(run) ==
    IF run.mode = FreeMode \/ run.fallback THEN "analyze_stock_free"
    ELSE "set_api_key"

\* setup_logger, "if logger.handlers: return logger" (line 32): the run
\* reads the handler list of the shared logger.
CheckHandlers(r) ==
    /\ runs[r].pc = "setup_logger"
    /\ runs' = [runs EXCEPT ![r].pc =
           IF logger_handlers # <<>> THEN AfterLogger(runs[r])
           ELSE "add_console_handler"]
    /\ shared_access' = Reads(r, "logger.handlers")
    /\ UNCHANGED <<calcVars, appVars, processVars>>

\* setup_logger, logger.addHandler(console_handler) (line 48): the run that
\* found no handler attaches its console handler.
AddConsoleHandler(r) ==
    /\ runs[r].pc = "add_console_handler"
    /\ logger_handlers' = Append(logger_handlers, "StreamHandler")
    /\ runs' = [runs EXCEPT ![r].pc = "add_file_handler"]
    /\ shared_access' = Writes(r, "logger.handlers")
    /\ UNCHANGED <<calcVars, appVars, openai_api_key>>

\* setup_logger, logger.addHandler(file_handler) (line 63), after the log
\* file was opened: the run attaches its file handler.
AddFileHandler(r) ==
    /\ runs[r].pc = "add_file_handler"
    /\ logger_handlers' = Append(logger_handlers, "FileHandler")
    /\ runs' = [runs EXCEPT ![r].pc = AfterLogger(runs[r])]
    /\ shared_access' = Writes(r, "logger.handlers")
    /\ UNCHANGED <<calcVars, appVars, openai_api_key>>

\* StockAnalyzer.__init__, lines 29-33: the key is written to the module
\* attribute and the client is constructed with the key; an error of the
\* client constructor sends the run to the handler of the premium branch.
SetApiKey(r) ==
    /\ runs[r].pc = "set_api_key"
    /\ openai_api_key' = runs[r].key
    /\ runs' = [runs EXCEPT
           ![r].pc = IF runs[r].client_ok THEN "fetch_stock_data"
                     ELSE "setup_logger",
           ![r].fallback = ~runs[r].client_ok]
    /\ shared_access' = Writes(r, "openai.api_key")
    /\ UNCHANGED <<calcVars, appVars, logger_handlers>>

\* The premium branch after fetch_stock_data returned or raised (lines 636
\* and 639).
AfterFetch(run, fetched) ==
    IF fetched.raised THEN [run EXCEPT !.pc = "setup_logger", !.fallback = TRUE]
    ELSE [run EXCEPT !.pc = "analyze_stock", !.premium_stock_data = fetched.data]

\* The premium branch after analyze_stock returned or raised (lines 637-639).
AfterAnalysis(run, analysed) ==
    IF analysed.raised THEN [run EXCEPT !.pc = "setup_logger", !.fallback = TRUE]
    ELSE [run EXCEPT !.pc = "store", !.analysis_type = "Premium",
                     !.result = analysed.result]

\* analyzer.fetch_stock_data(stock_symbol) (line 636): the run waits for the
\* market-data service; an exception sends it to the handler of the premium
\* branch.
FetchStockData(r) ==
    /\ runs[r].pc = "fetch_stock_data"
    /\ runs' = [runs EXCEPT ![r] =
           AfterFetch(@, fetch_stock_data(@.stock_data.symbol, @.upstream))]
    /\ UNCHANGED <<calcVars, appVars, processVars, shared_access>>

\* analyzer.analyze_stock(premium_stock_data) (lines 637-638): the run waits
\* for the reply of the generative service; an exception sends it to the
\* handler of the premium branch.
AnalyzeStock(r) ==
    /\ runs[r].pc = "analyze_stock"
    /\ runs' = [runs EXCEPT ![r] =
           AfterAnalysis(@, analyze_stock(@.premium_stock_data, @.service))]
    /\ UNCHANGED <<calcVars, appVars, processVars, shared_access>>

\* analyze_stock_free on the run's own stock_data (lines 628-629 and
\* 641-643).
AnalyzeStockFree(r) ==
    /\ runs[r].pc = "analyze_stock_free"
    /\ runs' = [runs EXCEPT ![r] =
           [@ EXCEPT !.pc = "store",
                     !.result = analyze_stock_free(runs[r].stock_data),
                     !.analysis_type =
                         IF runs[r].fallback THEN "Free (Fallback)" ELSE "Free"]]
    /\ UNCHANGED <<calcVars, appVars, processVars, shared_access>>

\* Lines 649-654: the run stores its result in the st.session_state of its
\* own session.
StoreResult(r) ==
    /\ runs[r].pc = "store"
    /\ runs' = [runs EXCEPT ![r] =
           [@ EXCEPT !.pc = "done",
                     !.session = [analysis_complete |-> TRUE,
                                  analysis_result |-> runs[r].result,
                                  analysis_type |-> runs[r].analysis_type]]]
    /\ UNCHANGED <<calcVars, appVars, processVars, shared_access>>

RunsNext ==
    \E r \in RunIds :
        \/ BeginFreeRun(r)
        \/ BeginPremiumRun(r)
        \/ CheckHandlers(r)
        \/ AddConsoleHandler(r)
        \/ AddFileHandler(r)
        \/ SetApiKey(r)
        \/ FetchStockData(r)
        \/ AnalyzeStock(r)
        \/ AnalyzeStockFree(r)
        \/ StoreResult(r)

\* Two runs start in a fresh process.
RunsInit == SessionInit /\ CalcIdle /\ ProcessInit /\ RunsIdle

RunsSpec == RunsInit /\ [][RunsNext]_vars


----------------------------------------------------------------------------
(* Properties of the calculation runs (specification Spec)                 *)

\* The P/E-band step of the snapshot the run was given.
BasicBand == PeBand(Get(stock_data, "pe_ratio", Num(0)))

\* _rule_based_analysis has returned a dict for a snapshot in the STRONG BUY
\* band.
StrongBuyBandReturned ==
    /\ call = "_rule_based_analysis"
    /\ ~ret.raised
    /\ BasicBand.basic_recommendation = "STRONG BUY"

\* C1 as stated: for every snapshot in the STRONG BUY band the recommendation
\* after the DCF adjustment is still STRONG BUY.
C1_StrongBuyNeverLowered ==
    StrongBuyBandReturned => ret.recommendation = "STRONG BUY"

\* C1, amended: a STRONG BUY of the P/E band is lowered by a completed DCF
\* that finds the stock overvalued, to BUY on "Overvalued" and to HOLD on
\* "Significantly Overvalued", and is kept in every other case.
C1_StrongBuyLoweredByOvervaluedDcf ==
    StrongBuyBandReturned =>
        ret.recommendation =
            IF ret.valuation_analysis.dcf_analysis.status # "Completed"
            THEN "STRONG BUY"
            ELSE IF ret.valuation_analysis.dcf_analysis.assessment = "Overvalued"
            THEN "BUY"
            ELSE IF ret.valuation_analysis.dcf_analysis.assessment
                        = "Significantly Overvalued"
            THEN "HOLD"
            ELSE "STRONG BUY"

\* C1, witness: a STRONG BUY of the band that the adjustment lowered to HOLD.
C1_StrongBuyLoweredToHold ==
    StrongBuyBandReturned /\ ret.recommendation = "HOLD"

\* _perform_basic_valuation has returned.
ValuationReturned == call = "_perform_basic_valuation"

\* Neither method has a fair value of its own: the DCF because eps is zero or
\* missing, the comparative because it has no P/E and no P/B estimate.
BothMethodsFail ==
    /\ ~Truthy(Get(stock_data, "eps", Num(0)))
    /\ ComparativeFairValues(stock_data) = <<>>

\* C2 as stated: when both methods fail, the blend has confidence 0% and
\* methods_used 0, for every current_price.
C2_BothFailZeroConfidence ==
    (ValuationReturned /\ BothMethodsFail) =>
        /\ ret.weighted_fair_value.confidence_level = 0
        /\ ret.weighted_fair_value.methods_used = 0

\* The methods whose record enters the blend: status 'Completed' and a
\* positive fair value.
ContributingMethods(valuation) ==
    (IF valuation.dcf_analysis.status = "Completed"
        /\ Positive(valuation.dcf_analysis.fair_value)
     THEN {"dcf"} ELSE {})
    \cup (IF valuation.comparative_valuation.status = "Completed"
             /\ IsNum(valuation.comparative_valuation.average_fair_value)
             /\ Positive(valuation.comparative_valuation.average_fair_value)
          THEN {"comparative"} ELSE {})

\* C3 as stated: with exactly one of the two methods succeeding, the
\* confidence level is 50%.
C3_OneMethodHalfConfidence ==
    (ValuationReturned /\ Cardinality(ContributingMethods(ret)) = 1) =>
        ret.weighted_fair_value.confidence_level = 50

\* C3, amended: the confidence level is 25% for each method that enters the
\* blend: 25% with exactly one, 50% with both, 0% with none.
C3_ConfidenceQuarterPerMethod ==
    ValuationReturned =>
        /\ ret.weighted_fair_value.methods_used
               = Cardinality(ContributingMethods(ret))
        /\ ret.weighted_fair_value.confidence_level
               = 25 * Cardinality(ContributingMethods(ret))

\* C3, witness: a blend of exactly one method, the DCF, at 25%.
C3_OnlyDcfContributes ==
    /\ ValuationReturned
    /\ ContributingMethods(ret) = {"dcf"}
    /\ ret.weighted_fair_value.confidence_level = 25

\* element in list
Contains(list, element) == \E i \in DOMAIN list : list[i] = element

\* The snapshot {current_price=50, pe_ratio=40, market_cap=1e9}, every other
\* field absent.
SellScenario ==
    Snapshot(<<"T", "E", "S", "T">>, Num(Whole(50)), Num(Whole(40)), Absent, Num(Bn(1)),
             Aux(Absent, Absent, Absent, Absent, Absent))

\* analyze_stock_free has returned for the snapshot of the SELL scenario.
SellScenarioReturned ==
    call = "analyze_stock_free" /\ stock_data = SellScenario

\* C4 as stated: SELL, target 42.50, and a risk list with both the high-P/E
\* and the small-market-cap entry.
C4_SellScenarioWithHighPeRisk ==
    SellScenarioReturned =>
        /\ BasicBand.basic_recommendation = "SELL"
        /\ ret.target_price = Milli(42500)
        /\ Contains(ret.risks, "High P/E ratio suggests elevated valuation risk")
        /\ Contains(ret.risks,
                    "Small market cap increases liquidity and volatility risks")

\* C4, amended: SELL, target 42.50, and a risk list with the small-market-cap
\* entry but without the high-P/E entry, which needs a P/E above 40.
C4_SellScenarioWithoutHighPeRisk ==
    SellScenarioReturned =>
        /\ BasicBand.basic_recommendation = "SELL"
        /\ ret.recommendation = "SELL"
        /\ ret.target_price = Milli(42500)
        /\ ~Contains(ret.risks, "High P/E ratio suggests elevated valuation risk")
        /\ Contains(ret.risks,
                    "Small market cap increases liquidity and volatility risks")

\* C4, witness: the SELL scenario has been analysed in full.
C4_SellScenarioAnalysed ==
    /\ SellScenarioReturned
    /\ ret.analysis_type = "Rule-based Fundamental Analysis (Free)"
    /\ Len(ret.risks) = 2

\* The snapshot {current_price=100, pe_ratio=10, eps=5, market_cap=5e9,
\* beta=1.0, dividend_yield=0.0}.
StrongBuyScenario ==
    Snapshot(<<"T", "E", "S", "T">>, Num(Whole(100)), Num(Whole(10)), Num(Whole(5)), Num(Bn(5)),
             Aux(Num(Whole(1)), Num(0), Absent, Absent, Absent))

\* analyze_stock_free has returned for the snapshot of the STRONG BUY scenario.
StrongBuyScenarioReturned ==
    call = "analyze_stock_free" /\ stock_data = StrongBuyScenario

\* C5 as stated: the band is STRONG BUY and the analysis reports the target
\* 125.00 and the upside "25.0%".
C5_StrongBuyScenarioReportsBandTarget ==
    StrongBuyScenarioReturned =>
        /\ BasicBand.basic_recommendation = "STRONG BUY"
        /\ ret.target_price = Whole(125)
        /\ ret.upside_potential = [na |-> FALSE, tenths |-> 250]

\* C5, amended: the band is STRONG BUY with a band target of 125.00, but the
\* DCF fair value of 90.00 ("Overvalued") lowers the report to BUY with the
\* target 94.50 and the upside "-5.5%".
C5_StrongBuyScenarioReportsDcfClampedTarget ==
    StrongBuyScenarioReturned =>
        /\ BasicBand.basic_recommendation = "STRONG BUY"
        /\ Round2(BasicTarget(Dec(ret.current_price), BasicBand.factor)) = Whole(125)
        /\ ret.valuation_analysis.dcf_analysis.assessment = "Overvalued"
        /\ ret.recommendation = "BUY"
        /\ ret.target_price = Milli(94500)
        /\ ret.upside_potential = [na |-> FALSE, tenths |-> -55]

\* C5, witness: the STRONG BUY scenario has been analysed in full, with a
\* completed DCF.
C5_StrongBuyScenarioAnalysed ==
    /\ StrongBuyScenarioReturned
    /\ ret.analysis_type = "Rule-based Fundamental Analysis (Free)"
    /\ ret.valuation_analysis.dcf_analysis.status = "Completed"

\* analyze_stock_free has returned or raised.
FreeAnalysisEnded == call = "analyze_stock_free"

\* A step inside the try block of analyze_stock_free raises for the snapshot.
InternalStepRaises ==
    RuleBasedRaises(stock_data) \/ DetailedTextRaises(stock_data)

\* The value is the fixed fallback record.
IsFallback(result) ==
    /\ DOMAIN result
           = {"symbol", "company_name", "analysis_type", "recommendation", "note"}
    /\ result.analysis_type = "Basic (Free)"
    /\ result.recommendation = "HOLD"

\* C6: analyze_stock_free raises to its caller for no snapshot; it returns a
\* record with a recommendation, and when a step inside it raises, that
\* record is the fixed fallback record, whose recommendation is HOLD.
C6_FreeAnalysisNeverRaises ==
    FreeAnalysisEnded =>
        /\ ~DictGet(ret, "raised", FALSE)
        /\ "recommendation" \in DOMAIN ret
        /\ InternalStepRaises => IsFallback(ret)

\* C6, witness: a step raised (a None beta in the risk assessment) and the
\* fallback record came back.
C6_FallbackAfterInternalError ==
    /\ FreeAnalysisEnded
    /\ RiskLevelRaises(stock_data)
    /\ IsFallback(ret)

\* Some input of the snapshot is missing, zero or degenerate in the way C7
\* lists: eps zero or missing, beta or market_cap without a value, or
\* 52w_high equal to 52w_low.
DegenerateInput ==
    \/ ~Truthy(Get(stock_data, "eps", Num(0)))
    \/ ~IsNum(stock_data.beta)
    \/ ~IsNum(stock_data.market_cap)
    \/ (IsNum(stock_data["52w_high"])
        /\ stock_data["52w_high"] = stock_data["52w_low"])

\* The value is the full analysis record.
IsFullAnalysis(result) ==
    {"target_price", "valuation", "risk_level"} \subseteq DOMAIN result

\* No other input of the snapshot is None: the price is a positive number and
\* pe_ratio, dividend_yield, pb_ratio and the 52-week range are numbers or are
\* left out.
OtherInputsUsable ==
    /\ IsNum(stock_data.current_price) /\ stock_data.current_price.v > 0
    /\ \A key \in {"pe_ratio", "eps", "dividend_yield", "pb_ratio", "52w_high",
                    "52w_low"} : ~IsNone(stock_data[key])

\* C7 as stated: for a snapshot whose only defects are missing, zero or
\* degenerate inputs of the kinds listed, analyze_stock_free still returns the
\* full analysis record, never the minimal fallback record.
C7_DegenerateInputKeepsFullAnalysis ==
    (FreeAnalysisEnded /\ DegenerateInput /\ OtherInputsUsable)
        => IsFullAnalysis(ret)

\* C10: for every snapshot with eps zero or missing, _calculate_dcf_valuation
\* returns a record with fair_value equal to current_price, assessment "Unable
\* to calculate" and a status other than 'Completed'.
C10_DcfWithoutEpsIsUnable ==
    (call = "_calculate_dcf_valuation" /\ ~Truthy(Get(stock_data, "eps", Num(0))))
        => /\ ret.fair_value = Get(stock_data, "current_price", Num(0))
           /\ ret.assessment = "Unable to calculate"
           /\ ret.status # "Completed"

\* C10, witness: eps is zero and the fair value that came back is the
\* current price of 100.
C10_ZeroEpsReturnsCurrentPrice ==
    /\ call = "_calculate_dcf_valuation"
    /\ stock_data.eps = Num(0)
    /\ ret.fair_value = Num(Whole(100))
    /\ ret.status = "Insufficient data"

----------------------------------------------------------------------------
(* Properties of the app session (specification AppSpec)                   *)

\* The last script run was a press of the analysis button in premium mode
\* that reached the premium branch and sent a request to the generative-text
\* service, and the request failed.
ServiceCallFailed ==
    last_run.event = "analyze" /\ last_run.service_failed

\* The stored analysis is one that analyze_stock_free produced.
StoredFreeAnalysis ==
    /\ analysis_complete
    /\ analysis_type # "Premium"
    /\ DictGet(analysis_result, "analysis_type", "")
           \in {"Rule-based Fundamental Analysis (Free)", "Basic (Free)"}

\* C8 as stated: when the call of the generative-text service fails, the
\* analysis stored and shown is the one of the rule-based (free) path, not a
\* premium result.
C8_ServiceFailureStoresFreeAnalysis ==
    ServiceCallFailed => StoredFreeAnalysis

\* The last script run reached the premium branch and one of the analyzer's
\* entry points raised into the handler of the branch.
PremiumEntryPointRaised ==
    last_run.event = "analyze" /\ last_run.premium_raised_in # "none"

\* C9 as stated: no entry point of the premium analyzer raises to its caller.
C9_PremiumEntryPointsNeverRaise ==
    last_run.premium_raised_in = "none"

\* C9, amended: the entry points of the premium analyzer raise to their
\* caller (construction without a key, fetch_stock_data after a market-data
\* failure, analyze_stock after its own failure); it is the app's premium
\* branch that catches, and it stores the free analysis of the app's own
\* stock_data under the type 'Free (Fallback)'.
C9_PremiumEntryPointsRaiseAndAppFallsBack ==
    /\ \A client_ok \in BOOLEAN : StockAnalyzerInit("", client_ok).raised
    /\ \A symbol \in SymbolTexts : fetch_stock_data(symbol, Raised).raised
    /\ PremiumEntryPointRaised =>
           /\ analysis_complete
           /\ analysis_type = "Free (Fallback)"
           /\ analysis_result
                  = analyze_stock_free(BuildStockData(stock_symbol, stock_info))

\* C9, witness: fetch_stock_data raised inside the premium branch and the
\* free analysis was stored.
C9_FetchRaisedInsidePremiumBranch ==
    /\ last_run.event = "analyze"
    /\ last_run.premium_raised_in = "fetch_stock_data"
    /\ analysis_type = "Free (Fallback)"
    /\ DictGet(analysis_result, "analysis_type", "")
           = "Rule-based Fundamental Analysis (Free)"

----------------------------------------------------------------------------
(* Properties of the calculators (specification Spec), continued           *)

\* _calculate_dcf_valuation has gone past its eps test, with a price, for a
\* snapshot whose market_cap is a number >= 0 or is missing.
TierSelected ==
    /\ call = "_calculate_dcf_valuation"
    /\ Truthy(Get(stock_data, "eps", Num(0)))
    /\ ~IsNone(stock_data.current_price)
    /\ ~IsNone(stock_data.market_cap)
    /\ Get(stock_data, "market_cap", Num(0)).v >= 0

\* C11: for every market_cap >= 0, zero and missing included, the selector
\* picks one of the four fixed bundles by the strict thresholds 1e12, 2e11 and
\* 1e10 (a market_cap on a threshold falls into the lower tier, zero and
\* missing into Small), and discount_rate > terminal_growth_rate in it.
C11_TierSelectorTotalAndStrict ==
    TierSelected =>
        /\ ret.status = "Completed"
        /\ ret.assumptions =
               IF Get(stock_data, "market_cap", Num(0)).v > Bn(1000)
               THEN [growth_rate_5y |-> 60, terminal_growth_rate |-> 25,
                     discount_rate |-> 80]
               ELSE IF Get(stock_data, "market_cap", Num(0)).v > Bn(200)
               THEN [growth_rate_5y |-> 80, terminal_growth_rate |-> 30,
                     discount_rate |-> 90]
               ELSE IF Get(stock_data, "market_cap", Num(0)).v > Bn(10)
               THEN [growth_rate_5y |-> 100, terminal_growth_rate |-> 35,
                     discount_rate |-> 100]
               ELSE [growth_rate_5y |-> 120, terminal_growth_rate |-> 40,
                     discount_rate |-> 120]
        /\ stock_data.market_cap \in {Absent, Num(0), Num(Bn(10))}
               => ret.assumptions.discount_rate = 120
        /\ stock_data.market_cap = Num(Bn(200))
               => ret.assumptions.discount_rate = 100
        /\ stock_data.market_cap = Num(Bn(1000))
               => ret.assumptions.discount_rate = 90
        /\ ret.assumptions.discount_rate > ret.assumptions.terminal_growth_rate

\* C11, witness: a market_cap of exactly 1e12 got the bundle of the tier
\* below Mega.
C11_ThresholdFallsIntoLowerTier ==
    /\ TierSelected
    /\ stock_data.market_cap = Num(Bn(1000))
    /\ ret.assumptions.growth_rate_5y = 80
----------------------------------------------------------------------------
(* Properties of the helpers (specification HelperSpec)                    *)

\* n hundredths of a price, as a decimal number; the prices of the helper runs
\* are whole numbers, so the division is exact.
HundredthsOf(current_price, n) == (current_price \div 100) * n

\* The label the five bands give by strict comparisons of decimal numbers.
StrictBand(fair_value, current_price) ==
    IF fair_value > HundredthsOf(current_price, 115) THEN "Significantly Undervalued"
    ELSE IF fair_value > HundredthsOf(current_price, 105) THEN "Undervalued"
    ELSE IF fair_value < HundredthsOf(current_price, 85) THEN "Significantly Overvalued"
    ELSE IF fair_value < HundredthsOf(current_price, 95) THEN "Overvalued"
    ELSE "Fair Value"

\* C12: the five-band classification gives every pair (fair_value,
\* current_price > 0) the one label that strict comparisons against 1.15, 1.05,
\* 0.95 and 0.85 times current_price select (a fair value exactly on a
\* threshold belongs to the band nearer to "Fair Value"), and the DCF
\* calculator and the comparative calculator give the same label.
C12_FiveBandsByStrictComparison ==
    call = "assessment" =>
        /\ ret.dcf_assessment = StrictBand(args.fair_value, args.current_price)
        /\ ret.comparative_assessment = ret.dcf_assessment
\* The P/E ratio as the first pass reads it: a number, or no usable value
\* (zero, None or missing from the snapshot).
UsablePe(pe_ratio) == IsNum(pe_ratio) /\ pe_ratio.v # 0

\* The product of a price and a factor given in hundredths, as the float the
\* program computes for it.
PriceTimes(current_price, hundredths) ==
    Flt(FMul(Dec(current_price), Dec(hundredths * 10000)))

\* C13: the first-pass recommendation is a total function of pe_ratio:
\* pe_ratio < 12 gives STRONG BUY with target 1.25 x price, 12 <= pe_ratio < 18
\* BUY with 1.15 x price, pe_ratio > 35 SELL with 0.85 x price,
\* 25 < pe_ratio <= 35 HOLD with 0.95 x price, and every other value
\* (18 <= pe_ratio <= 25, zero or missing) HOLD with 1.05 x price; the
\* target is the float product of the price and the factor.
C13_FirstPassFromPeBands ==
    call = "pe_band" =>
        /\ UsablePe(args.pe_ratio) /\ args.pe_ratio.v < Whole(12) =>
               /\ ret.basic_recommendation = "STRONG BUY"
               /\ ret.price_target = PriceTimes(args.current_price, 125)
        /\ UsablePe(args.pe_ratio) /\ args.pe_ratio.v >= Whole(12)
              /\ args.pe_ratio.v < Whole(18) =>
               /\ ret.basic_recommendation = "BUY"
               /\ ret.price_target = PriceTimes(args.current_price, 115)
        /\ UsablePe(args.pe_ratio) /\ args.pe_ratio.v > Whole(35) =>
               /\ ret.basic_recommendation = "SELL"
               /\ ret.price_target = PriceTimes(args.current_price, 85)
        /\ UsablePe(args.pe_ratio) /\ args.pe_ratio.v > Whole(25)
              /\ args.pe_ratio.v <= Whole(35) =>
               /\ ret.basic_recommendation = "HOLD"
               /\ ret.price_target = PriceTimes(args.current_price, 95)
        /\ (\/ ~UsablePe(args.pe_ratio)
            \/ /\ UsablePe(args.pe_ratio)
               /\ args.pe_ratio.v >= Whole(18)
               /\ args.pe_ratio.v <= Whole(25)) =>
               /\ ret.basic_recommendation = "HOLD"
               /\ ret.price_target = PriceTimes(args.current_price, 105)

\* A snapshot without a pe_ratio was classified: HOLD, target 105 to the
\* cent.
C13_MissingPeIsHold ==
    /\ call = "pe_band"
    /\ args.pe_ratio = Absent
    /\ args.current_price = Whole(100)
    /\ ret.basic_recommendation = "HOLD"
    /\ Round2(ret.price_target.d) = Whole(105)

\* A P/E ratio exactly on the threshold 12 was classified: BUY, target 115
\* to the cent.
C13_ThresholdTwelveIsBuy ==
    /\ call = "pe_band"
    /\ args.pe_ratio = Num(Whole(12))
    /\ args.current_price = Whole(100)
    /\ ret.basic_recommendation = "BUY"
    /\ Round2(ret.price_target.d) = Whole(115)
\* C20: with the tier assumptions held fixed the DCF fair value is strictly
\* increasing in eps, over negative and positive eps, and with eps > 0 and
\* the other assumptions fixed it is strictly increasing in growth_rate_5y.
C20_DcfIncreasesWithEpsAndGrowth ==
    call = "dcf_fair_value" =>
        /\ FLt(ret.fair_value.d, ret.fair_value_higher_eps.d)
        /\ args.eps > 0 => FLt(ret.fair_value.d, ret.fair_value_higher_growth.d)

\* C20, witness: two negative eps under the same assumptions gave two negative
\* fair values in the order of the eps.
C20_NegativeEpsOrdered ==
    /\ call = "dcf_fair_value"
    /\ args.eps = Whole(-1)
    /\ args.eps_higher = Milli(-10)
    /\ FLt(ret.fair_value.d, ret.fair_value_higher_eps.d)
    /\ Negative(ret.fair_value_higher_eps)

----------------------------------------------------------------------------
(* Properties of the calculators (specification Spec): blend, comparative  *)
(* calculator and WACC                                                     *)

\* The estimates of the comparative calculator that count as available: the
\* P/E estimate with a usable pe_ratio and eps, the P/B estimate with a
\* positive pb_ratio and a usable current_price.
AvailableEstimates(sd) ==
    (IF Truthy(Get(sd, "pe_ratio", Num(0))) /\ Truthy(Get(sd, "eps", Num(0)))
     THEN <<PeFairValue(Double(Get(sd, "eps", Num(0))))>> ELSE <<>>)
    \o (IF IsNum(Get(sd, "pb_ratio", Num(0))) /\ Get(sd, "pb_ratio", Num(0)).v > 0
           /\ Truthy(Get(sd, "current_price", Num(0)))
        THEN <<PbFairValue(Double(Get(sd, "current_price", Num(0))),
                           Double(Get(sd, "pb_ratio", Num(0))))>>
        ELSE <<>>)

\* Two numbers agree to the millionth: the last digits of a float sum or
\* quotient are not part of what a valuation states.
Near(x, y) ==
    /\ IsNum(x) /\ IsNum(y)
    /\ Abs(Millionths(Double(x)) - Millionths(Double(y))) <= 1

\* The snapshot has a positive price, so that neither calculator stops on
\* the price.
PositivePrice ==
    /\ IsNum(stock_data.current_price)
    /\ stock_data.current_price.v > 0

\* The DCF succeeded: status 'Completed' with a positive fair value.
DcfSucceeded(valuation) ==
    /\ valuation.dcf_analysis.status = "Completed"
    /\ Positive(valuation.dcf_analysis.fair_value)

\* The comparative calculator succeeded: it had an estimate of its own and
\* a positive average.
ComparativeSucceeded(valuation) ==
    /\ AvailableEstimates(stock_data) # <<>>
    /\ valuation.comparative_valuation.status = "Completed"
    /\ Positive(valuation.comparative_valuation.average_fair_value)

\* C14 as stated: the blended fair value uses only the methods that
\* succeeded: 0.4 x DCF + 0.6 x comparative with both, the fair value of the
\* single successful method with one (the DCF fair value when the comparative
\* calculator had neither a P/E nor a P/B estimate), current_price with none.
C14_BlendUsesSucceededMethodsOnly ==
    (ValuationReturned /\ PositivePrice) =>
        Near(ret.weighted_fair_value.weighted_fair_value,
             IF DcfSucceeded(ret) /\ ComparativeSucceeded(ret)
             THEN Flt(FAdd(FMul(Double(ret.dcf_analysis.fair_value), Weight(4)),
                           FMul(Double(ret.comparative_valuation.average_fair_value),
                                Weight(6))))
             ELSE IF DcfSucceeded(ret) THEN ret.dcf_analysis.fair_value
             ELSE IF ComparativeSucceeded(ret)
             THEN ret.comparative_valuation.average_fair_value
             ELSE stock_data.current_price)

\* C15 as stated: the comparative fair value is the average of the available
\* estimates (P/E estimate eps x 20, P/B estimate (current_price / pb_ratio)
\* x 2.5); with none available it is current_price and the assessment is
\* "Unable to determine"; a pb_ratio that is present but not positive
\* contributes no estimate.
C15_AverageOfAvailableEstimates ==
    (ValuationReturned /\ PositivePrice) =>
        IF AvailableEstimates(stock_data) = <<>>
        THEN /\ ret.comparative_valuation.average_fair_value = stock_data.current_price
             /\ ret.comparative_valuation.assessment = "Unable to determine"
        ELSE ret.comparative_valuation.average_fair_value =
                 Flt(AverageFairValue(AvailableEstimates(stock_data)))

\* C16 as stated: _calculate_wacc returns status 'Completed' with a numeric
\* WACC for every snapshot, with beta 1.0 when beta is absent or has no value
\* and the smallest size band when market_cap is absent or has no value.
C16_WaccNeverFails ==
    ValuationReturned =>
        IF ret.wacc_analysis.status = "Completed"
        THEN /\ ret.wacc_analysis.wacc \in Int
             /\ ~IsNum(stock_data.beta) => ret.wacc_analysis.beta = Whole(1)
             /\ ~IsNum(stock_data.market_cap) =>
                    /\ ret.wacc_analysis.debt_to_equity = DebtToEquity(0)
                    /\ ret.wacc_analysis.credit_spread = CreditSpread(0)
        ELSE FALSE
----------------------------------------------------------------------------
(* Properties of concurrent runs (specification RunsSpec)                  *)

\* What the button handler stores for a run's inputs when it runs alone.
AloneResult(run) ==
    IF run.mode = FreeMode
    THEN [result |-> analyze_stock_free(run.stock_data), analysis_type |-> "Free"]
    ELSE [result |-> PremiumBranch(run.stock_data.symbol, run.key, run.stock_data,
                                   run.client_ok, run.upstream, run.service).result,
          analysis_type |->
              PremiumBranch(run.stock_data.symbol, run.key, run.stock_data,
                            run.client_ok, run.upstream, run.service).analysis_type]

\* What every finished run has stored in its session is what its own inputs
\* give.
ResultsAreOwn ==
    \A r \in RunIds :
        runs[r].pc = "done" =>
            /\ runs[r].session.analysis_complete
            /\ runs[r].session.analysis_result = AloneResult(runs[r]).result
            /\ runs[r].session.analysis_type = AloneResult(runs[r]).analysis_type

\* C17 as stated: no run writes a variable that another run reads, and the
\* result of each run is a function of its own snapshot alone.
C17_NoRunReadsWhatAnotherWrote ==
    /\ \A name \in SharedNames : \A r1, r2 \in RunIds :
           r1 # r2 =>
               ~(r1 \in shared_access.writers[name]
                 /\ r2 \in shared_access.readers[name])
    /\ ResultsAreOwn

\* "Avoid duplicate handlers" (logger.py, line 31): the shared logger never
\* holds two handlers of one kind.  Two runs that both read the list empty
\* both attach their handlers.
NoDuplicateHandlers ==
    \A i, j \in DOMAIN logger_handlers :
        i # j => logger_handlers[i] # logger_handlers[j]

\* The module attribute openai.api_key is set once and never changed.  Every
\* construction of a StockAnalyzer writes the key of its own run to it.
ApiKeyWrittenOnce ==
    [][openai_api_key # Unset => openai_api_key' = openai_api_key]_vars
----------------------------------------------------------------------------
(* Properties of the DCF adjustment (specification Spec)                   *)

\* _rule_based_analysis has returned an analysis.
RuleBasedReturned == call = "_rule_based_analysis" /\ ~ret.raised

\* The target the analysis reports for a price target: round(price_target, 2)
\* if price_target else current_price.
ReportedTarget(price_target) ==
    IF price_target.s # 0 THEN Round2(price_target) ELSE ret.current_price

\* The price target of the P/E band.
BandTarget == BasicTarget(Dec(ret.current_price), BasicBand.factor)

\* C18: with a completed DCF at "Significantly Undervalued" the final
\* recommendation is STRONG BUY for base HOLD or BUY, HOLD for base SELL,
\* STRONG BUY for base STRONG BUY, and the final price target is at least 90%
\* of the DCF fair value and at least the P/E-band target (to the cent, as
\* the analysis reports it).
C18_SignificantlyUndervaluedRaises ==
    (/\ RuleBasedReturned
     /\ ret.valuation_analysis.dcf_analysis.status = "Completed"
     /\ ret.valuation_analysis.dcf_analysis.assessment = "Significantly Undervalued")
    =>
        /\ BasicBand.basic_recommendation \in {"HOLD", "BUY"} =>
               ret.recommendation = "STRONG BUY"
        /\ BasicBand.basic_recommendation = "SELL" => ret.recommendation = "HOLD"
        /\ BasicBand.basic_recommendation = "STRONG BUY" =>
               ret.recommendation = "STRONG BUY"
        /\ ret.target_price >=
               Round2(FMul(ret.valuation_analysis.dcf_analysis.fair_value.d, Dec(900000)))
        /\ ret.target_price >= Round2(BandTarget)
        /\ ret.target_price \in
               {Round2(FMul(ret.valuation_analysis.dcf_analysis.fair_value.d, Dec(900000))),
                Round2(BandTarget)}

\* C18, witness: a base SELL (P/E 40 at price 50) met a DCF fair value of
\* 180, "Significantly Undervalued": HOLD with the target 162.00.
C18_SellRaisedToHold ==
    /\ RuleBasedReturned
    /\ BasicBand.basic_recommendation = "SELL"
    /\ ret.valuation_analysis.dcf_analysis.status = "Completed"
    /\ ret.valuation_analysis.dcf_analysis.assessment = "Significantly Undervalued"
    /\ ret.recommendation = "HOLD"
    /\ ret.target_price = Whole(162)
    /\ Round2(BandTarget) = Milli(42500)

\* C19: with a DCF at "Fair Value", or a DCF whose status is not 'Completed',
\* the analysis reports the recommendation and the price target of the P/E
\* band.
C19_FairValueOrNoDcfKeepsBand ==
    (/\ RuleBasedReturned
     /\ \/ ret.valuation_analysis.dcf_analysis.status # "Completed"
        \/ ret.valuation_analysis.dcf_analysis.assessment = "Fair Value")
    =>
        /\ ret.recommendation = BasicBand.basic_recommendation
        /\ ret.target_price = ReportedTarget(BandTarget)

\* C19, witness: a base STRONG BUY (P/E 10 at price 100) met a completed DCF
\* at "Fair Value" whose fair value is not the band target, and kept its
\* label and its target of 125.00.
C19_FairValueDcfKeepsStrongBuy ==
    /\ RuleBasedReturned
    /\ ret.valuation_analysis.dcf_analysis.status = "Completed"
    /\ ret.valuation_analysis.dcf_analysis.assessment = "Fair Value"
    /\ ret.valuation_analysis.dcf_analysis.fair_value.d # BandTarget
    /\ ret.recommendation = "STRONG BUY"
    /\ ret.target_price = Whole(125)
----------------------------------------------------------------------------
(* Properties of the WACC and of the rule-based analysis (specification    *)
(* Spec)                                                                   *)

\* _calculate_wacc has completed inside the valuation.
WaccReturned == ValuationReturned /\ ret.wacc_analysis.status = "Completed"

\* The market_cap _calculate_wacc reads.
WaccMarketCap == Get(stock_data, "market_cap", Num(0)).v

\* C21: debt-to-equity and credit spread come from the same size band
\* (market_cap > 50e9: 0.30 and 2%; > 10e9: 0.25 and 3%; otherwise 0.20 and
\* 5%; a market_cap on a threshold belongs to the lower band), and
\* equity_weight and debt_weight are positive and sum to 1: the reported
\* percentages add up to 100.0%, and the two floats to 1 to the millionth.
C21_WaccBandsAgree ==
    WaccReturned =>
        /\ WaccMarketCap > Bn(50) =>
               /\ ret.wacc_analysis.debt_to_equity = 30
               /\ ret.wacc_analysis.credit_spread = Milli(20)
        /\ WaccMarketCap > Bn(10) /\ WaccMarketCap <= Bn(50) =>
               /\ ret.wacc_analysis.debt_to_equity = 25
               /\ ret.wacc_analysis.credit_spread = Milli(30)
        /\ WaccMarketCap <= Bn(10) =>
               /\ ret.wacc_analysis.debt_to_equity = 20
               /\ ret.wacc_analysis.credit_spread = Milli(50)
        /\ ret.wacc_analysis.equity_weight > 0
        /\ ret.wacc_analysis.debt_weight > 0
        /\ ret.wacc_analysis.equity_weight + ret.wacc_analysis.debt_weight = 1000
        /\ Millionths(FAdd(EquityWeight(ret.wacc_analysis.debt_to_equity),
                           DebtWeight(ret.wacc_analysis.debt_to_equity))) = Scale

\* C21, witness: a market_cap exactly on the threshold 50e9 was put into the
\* middle band by both lookups.
C21_ThresholdFiftyInMiddleBand ==
    /\ WaccReturned
    /\ stock_data.market_cap = Num(Bn(50))
    /\ ret.wacc_analysis.debt_to_equity = 25
    /\ ret.wacc_analysis.credit_spread = Milli(30)
\* _rule_based_analysis has returned an analysis of a snapshot with a
\* positive price.
RuleBasedReturnedAtPositivePrice == RuleBasedReturned /\ ret.current_price > 0

\* C23 as stated: at a positive price the final recommendation and the final
\* price target agree in direction: BUY and STRONG BUY come with a target of
\* at least the price, SELL with a target of at most the price.
C23_LabelAndTargetAgreeInDirection ==
    RuleBasedReturnedAtPositivePrice =>
        /\ ret.recommendation \in {"BUY", "STRONG BUY"} =>
               ret.target_price >= ret.current_price
        /\ ret.recommendation = "SELL" => ret.target_price <= ret.current_price

\* C24 as stated: at a positive price the reported target_price is strictly
\* positive, whatever the sign of eps and pe_ratio.
C24_TargetPricePositive ==
    RuleBasedReturnedAtPositivePrice => ret.target_price > 0

\* The order of the labels: SELL < HOLD < BUY < STRONG BUY.
LabelRank(label) ==
    IF label = "SELL" THEN 0 ELSE IF label = "HOLD" THEN 1
    ELSE IF label = "BUY" THEN 2 ELSE 3

\* C25: the final recommendation is one of STRONG BUY, BUY, HOLD, SELL, and
\* the DCF adjustment is monotone: under a completed DCF at "Undervalued" or
\* "Significantly Undervalued" the final label is never lower than the label
\* of the P/E band, under "Overvalued" or "Significantly Overvalued" never
\* higher.
C25_DcfAdjustmentMonotone ==
    RuleBasedReturned =>
        /\ ret.recommendation \in {"STRONG BUY", "BUY", "HOLD", "SELL"}
        /\ (/\ ret.valuation_analysis.dcf_analysis.status = "Completed"
            /\ ret.valuation_analysis.dcf_analysis.assessment
                   \in {"Undervalued", "Significantly Undervalued"})
           => LabelRank(ret.recommendation)
                  >= LabelRank(BasicBand.basic_recommendation)
        /\ (/\ ret.valuation_analysis.dcf_analysis.status = "Completed"
            /\ ret.valuation_analysis.dcf_analysis.assessment
                   \in {"Overvalued", "Significantly Overvalued"})
           => LabelRank(ret.recommendation)
                  <= LabelRank(BasicBand.basic_recommendation)

\* C25, witness: a base SELL met a significantly overvalued DCF and stayed a
\* SELL.
C25_SellUnderOvervaluedDcfStays ==
    /\ RuleBasedReturned
    /\ BasicBand.basic_recommendation = "SELL"
    /\ ret.valuation_analysis.dcf_analysis.status = "Completed"
    /\ ret.valuation_analysis.dcf_analysis.assessment = "Significantly Overvalued"
    /\ ret.recommendation = "SELL"

----------------------------------------------------------------------------
(* Properties of the app session (specification AppSpec), continued        *)

\* The last script run was a press of the analysis button.
AnalysisRun == last_run.event = "analyze"

\* The press reached the premium branch with a key: the market data were
\* there and could be displayed.
PremiumAttempted ==
    /\ AnalysisRun
    /\ analysis_mode = PremiumMode
    /\ api_key # ""
    /\ last_run.error \notin {"Error analyzing", "API key required"}

\* C22 as stated: during one analysis the market-data fetch and the
\* generative-text call are each issued at most once.
C22_EachExternalCallAtMostOnce ==
    AnalysisRun =>
        /\ last_run.market_data_calls <= 1
        /\ last_run.generative_calls <= 1

\* C22, amended: the generative-text call is issued at most once and a failed
\* call is never repeated, but the market data of the symbol are fetched once
\* by the app and once more by fetch_stock_data whenever the premium analyzer
\* was constructed: twice in all, and never again after either fetch failed
\* or after the fallback to the free path.
C22_SecondFetchInPremiumNoRetry ==
    AnalysisRun =>
        /\ last_run.generative_calls <= 1
        /\ last_run.service_failed => last_run.generative_calls = 1
        /\ last_run.market_data_calls =
               IF PremiumAttempted /\ last_run.premium_raised_in # "__init__"
               THEN 2 ELSE 1
        /\ last_run.error = "Error analyzing" =>
               last_run.market_data_calls = 1 /\ last_run.generative_calls = 0
        /\ last_run.premium_raised_in = "fetch_stock_data" =>
               last_run.market_data_calls = 2 /\ last_run.generative_calls = 0

\* C22, witness: the second fetch failed, the app fell back to the free
\* analysis, and no further call was issued.
C22_FallbackAfterSecondFetchFailed ==
    /\ PremiumAttempted
    /\ last_run.premium_raised_in = "fetch_stock_data"
    /\ last_run.market_data_calls = 2
    /\ last_run.generative_calls = 0
    /\ analysis_type = "Free (Fallback)"
\* A result of the free analyzer carries its own 'analysis_type' (the
\* rule-based record or the fallback record); the premium record has none.
ProducedByFreeAnalyzer(result) == "analysis_type" \in DOMAIN result

\* C26: analysis_complete is true only with a stored result (and info) that
\* was produced for the symbol in current_symbol, and a run that reads from
\* the symbol box a symbol other than current_symbol clears
\* analysis_complete, analysis_result and stock_info and takes the new
\* symbol before it draws the main content: it does not draw the PowerPoint
\* section.  Such a run follows a new text in the box or the st.rerun() of
\* "New Analysis", which leaves current_symbol None.
C26_CompleteOnlyForCurrentSymbol ==
    /\ [](analysis_complete =>
             /\ analysis_result # NoResult
             /\ stock_info # NoResult
             /\ analysis_result.symbol = current_symbol
             /\ current_symbol = stock_symbol)
    /\ [][stock_symbol' # current_symbol =>
             /\ last_run'.event \in {"symbol", "new"}
             /\ ~analysis_complete'
             /\ analysis_result' = NoResult
             /\ stock_info' = NoResult
             /\ current_symbol' = stock_symbol'
             /\ ~last_run'.ppt_section]_vars

\* C26, witness: after an analysis had been stored (analysis_type is set), a
\* different symbol was entered and the session is clear.
C26_OtherSymbolEnteredAfterAnalysis ==
    /\ last_run.event = "symbol"
    /\ ~last_run.ppt_section
    /\ analysis_type # Unset
    /\ current_symbol = <<"B", "B", "B">>
    /\ ~analysis_complete
    /\ analysis_result = NoResult

\* C27: a presentation is generated only with a completed, stored analysis,
\* and by the generator of the analyzer that produced the stored result: the
\* AI generator for a premium result, the free generator for a result
\* labelled "Free" or "Free (Fallback)".
C27_GeneratorMatchesStoredResult ==
    last_run.event = "ppt" =>
        /\ analysis_complete
        /\ analysis_result # NoResult
        /\ analysis_type \in {"Premium", "Free", "Free (Fallback)"}
        /\ (analysis_type = "Premium") = ~ProducedByFreeAnalyzer(analysis_result)
        /\ last_run.generator =
               IF ProducedByFreeAnalyzer(analysis_result)
               THEN "create_presentation_free" ELSE "create_presentation_ai"

\* C27, witness: the free generator ran on a free result in premium mode, in
\* a session whose earlier premium run had set the module's key.
C27_FreeGeneratorAfterPremiumRun ==
    /\ last_run.event = "ppt"
    /\ last_run.generator = "create_presentation_free"
    /\ analysis_type = "Free"
    /\ ProducedByFreeAnalyzer(analysis_result)
    /\ analysis_mode = PremiumMode
    /\ openai_api_key # Unset

\* The button was pressed in premium mode without a key.
KeyMissingRun(run) == run.event = "analyze" /\ run.error = "API key required"

\* C28: the run of the button in premium mode without a key ends with the
\* error and leaves analysis_complete, analysis_result, stock_info and
\* analysis_type as they were; a run whose premium analysis raised with a
\* key present stores the free analysis of the app's own stock_data under
\* the label "Free (Fallback)".
C28_KeyMissingKeepsSessionAndRaiseFallsBack ==
    /\ [][KeyMissingRun(last_run') =>
             UNCHANGED <<analysis_complete, analysis_result, stock_info,
                         analysis_type>>]_vars
    /\ [](last_run.event = "analyze" /\ last_run.premium_raised_in # "none" =>
             /\ analysis_complete
             /\ analysis_type = "Free (Fallback)"
             /\ analysis_result =
                    analyze_stock_free(BuildStockData(stock_symbol, stock_info)))

\* C28, witness: a fallback result was stored, the key was removed, and the
\* button pressed without a key left the stored fallback in place.
C28_FallbackKeptByKeyMissingRun ==
    /\ KeyMissingRun(last_run)
    /\ analysis_complete
    /\ analysis_type = "Free (Fallback)"
    /\ ProducedByFreeAnalyzer(analysis_result)

----------------------------------------------------------------------------
(* Properties of the free analysis record (specification Spec)             *)

\* analyze_stock_free returned the record of its try block.
FreeAnalysisReturned ==
    /\ call = "analyze_stock_free"
    /\ ret.analysis_type = "Rule-based Fundamental Analysis (Free)"

\* C29: in the record analyze_stock_free returns from its try block, the
\* top-level 'dcf_value' is the fair_value of valuation.dcf_analysis and the
\* top-level 'wacc' is the WACC of a completed valuation.wacc_analysis (as
\* the formatted 'wacc' or as 'wacc_decimal').
C29_TopLevelMirrorsValuation ==
    FreeAnalysisReturned =>
        /\ ret.dcf_value = ret.valuation.dcf_analysis.fair_value
        /\ ret.valuation.wacc_analysis.status = "Completed" =>
               \/ ret.wacc = ret.valuation.wacc_analysis.wacc
               \/ Flt(FromInt(ret.wacc)) = ret.valuation.wacc_analysis.wacc_decimal

\* _perform_basic_valuation returned with a completed financial statement
\* analysis.
StatementsCompleted ==
    /\ call = "_perform_basic_valuation"
    /\ ret.financial_statement_analysis.status = "Completed"

\* C30: the overall financial health score is between 0 and 24, and each of
\* the six category scores is at most the maximum its assessment is taken
\* against (5, 5, 5, 5, 5, 4).
C30_ScoresWithinMaxima ==
    StatementsCompleted =>
        /\ ret.financial_statement_analysis.overall_score \in 0..24
        /\ ret.financial_statement_analysis.scores.profitability_score <= 5
        /\ ret.financial_statement_analysis.scores.liquidity_score <= 5
        /\ ret.financial_statement_analysis.scores.leverage_score <= 5
        /\ ret.financial_statement_analysis.scores.efficiency_score <= 5
        /\ ret.financial_statement_analysis.scores.valuation_score <= 5
        /\ ret.financial_statement_analysis.scores.growth_score <= 4

====
